---- MODULE Spec2Model ----
(***************************************************************************)
(* Booking API of a driving school (YukiHayato/gpae-launch).  The          *)
(* repository holds several revisions of one Express/Mongoose server.      *)
(* Each revision is a program of its own; the variable rev names the one   *)
(* that is running, and each revision has its own next-state relation.     *)
(*                                                                         *)
(*   "avail"  src/unnamed/part_004          weekly availability per        *)
(*                                          instructor                     *)
(*   "tag"    src/server.js, lines 1-525    instructors named by a tag     *)
(*   "auto"   src/unnamed/part_000, lines 378-696   auto-assignment        *)
(*   "min"    src/unnamed/part_001          no admission rule              *)
(*   "mem"    src/unnamed/part_003          reservations in an array of    *)
(*                                          the process, with a status     *)
(*                                                                         *)
(* A handler runs from one store call to the next without interruption     *)
(* (single-threaded event loop); handlers of different requests interleave *)
(* at store calls only.  A step of the model is therefore: one store call  *)
(* takes effect and the handler that awaited it runs up to its next store  *)
(* call (or to its answer).  The synchronous prefix of a handler and its   *)
(* first store call form one step, the request's arrival not being         *)
(* observable before that call.                                            *)
(***************************************************************************)
EXTENDS Integers, Sequences, FiniteSets, TLC

VARIABLES
    rev,          \* the revision that is running
    tz,           \* the time zone the server process runs in
    users,        \* User collection: id -> document
    moniteurs,    \* Moniteur collection of the tag-based revision: id -> document
    reservations, \* Reservation collection: a set of documents
    nextId,       \* number of the next reservation document (ObjectIds are never reused)
    hs,           \* handler -> the locals of the request it is running
    ev,           \* the last HTTP answer sent, with the request it answers
    probe,        \* argument of the pure function under test
    result,       \* its result
    mails,        \* the mails handed to the transport, with their outcome
    emailRateLimits, \* the Map of checkRateLimit: admin email -> window
    now,          \* Date.now(), in milliseconds
    emailLogs     \* EmailLog collection: the documents in the order of their creation

vars == <<rev, tz, users, moniteurs, reservations, nextId, hs, ev, probe, result,
          mails, emailRateLimits, now, emailLogs>>

-----------------------------------------------------------------------------
(* Bounds of the model.                                                    *)

\* reservations ever created in one behaviour
MaxRes == 2

\* The User documents the store holds at one time.
MaxUsers == 3

\* The requests of an administrator that POST /admin/send-email counts in
\* one run.
MaxLogs == 2

\* Moniteur documents ever made in one behaviour, the first included.
MaxMoniteurs == 2

\* Mails that the POST /send-mail-all requests of one behaviour hand to the
\* transport.
MaxMessages == 2

\* last day (0 = Monday 2024-03-25) a probed slot text may name
LastDay == 6

-----------------------------------------------------------------------------
(* Time.  An instant is a number of minutes since Monday 2024-03-25        *)
(* 00:00 UTC; the week holds the change to summer time of Europe/Paris     *)
(* (Sunday 2024-03-31 01:00 UTC).                                          *)

\* getTime() of an invalid Date; no instant of the model is that small
NaN == 0 - 999999

MinPerDay == 24 * 60

\* first instant of summer time (UTC+2) in Europe/Paris
DstStart == (6 * 24 + 1) * 60

\* A slot string of a request: "" (absent), a text that is no date, or an
\* ISO-8601 text <day>T<h>:<mi>:00<off>, off being the UTC offset it is
\* written with (0 for Z).
Iso(d, h, mi, off) == [txt |-> "iso", d |-> d, h |-> h, mi |-> mi, off |-> off]
NoSlot == [txt |-> "", d |-> 0, h |-> 0, mi |-> 0, off |-> 0]
NotADate == [txt |-> "not-a-date", d |-> 0, h |-> 0, mi |-> 0, off |-> 0]

IsIsoText(s) == s.txt = "iso"

\* A plausible slip: hours past 23 roll over into the next day.
ParseDateLenient(s) ==
    IF IsIsoText(s)
    THEN (s.d * 24 + s.h - s.off) * 60 + s.mi
    ELSE NaN

\* new Date(slot).getTime(): NaN for a text that is no date or names no
\* instant (hour 25, minute 60), else the instant; 24:00 is read as
\* midnight of the next day.
ParseDate(s) ==
    IF IsIsoText(s) /\ ((s.h \in 0..23 /\ s.mi \in 0..59) \/ (s.h = 24 /\ s.mi = 0))
    THEN (s.d * 24 + s.h - s.off) * 60 + s.mi
    ELSE NaN

\* A plausible slip: the instant rendered with the winter offset of Paris.
ToISOStringLocal(t) ==
    Iso((t + 60) \div MinPerDay, ((t + 60) % MinPerDay) \div 60, t % 60, 1)

\* Date.prototype.toISOString(): the UTC rendering, offset Z.
ToISOString(t) ==
    Iso(t \div MinPerDay, (t % MinPerDay) \div 60, t % 60, 0)

\* UTC offset of Europe/Paris at instant t, in hours.
ParisOffset(t) == IF t < DstStart THEN 1 ELSE 2

\* date.toLocaleString('en-US', { timeZone: 'Europe/Paris' }):
\* "M/D/YYYY, h:mm:ss AM", the wall clock of Paris on a 12-hour dial.
ToLocaleStringParis(t) ==
    LET wall == t + 60 * ParisOffset(t)
        hh == (wall % MinPerDay) \div 60
    IN  [d |-> wall \div MinPerDay,
         h12 |-> ((hh + 11) % 12) + 1,
         mi |-> wall % 60,
         pm |-> hh >= 12]

\* A time zone of the server process, in minutes: off is its UTC offset at
\* the beginning of the week, debut the instant at which it changes its
\* clocks and saut what it adds to them then (0 for a zone that does not
\* change them within the week).
Zone(off, debut, saut) == [off |-> off, debut |-> debut, saut |-> saut]
Fixed(off) == Zone(off, 0, 0)
UTC == Fixed(0)

\* UTC offset of the zone at instant t, in minutes.
ZoneOffset(t, zone) == zone.off + (IF t >= zone.debut THEN zone.saut ELSE 0)

\* new Date("M/D/YYYY, h:mm:ss AM"): a text without offset is read as wall
\* clock of the server's own zone; a wall clock that the zone skips at its
\* change to summer time is read with the offset in force before the change.
ParseLocal(w, zone) ==
    LET hh == (w.h12 % 12) + (IF w.pm THEN 12 ELSE 0)
        before == (w.d * 24 + hh) * 60 + w.mi - zone.off
        after == before - zone.saut
    IN  IF before < zone.debut THEN before
        ELSE IF after >= zone.debut THEN after
        ELSE before

\* Date.prototype.getHours(), in the server's zone.
GetHours(t, zone) == ((t + ZoneOffset(t, zone)) % MinPerDay) \div 60

Jours == <<"lundi", "mardi", "mercredi", "jeudi", "vendredi", "samedi", "dimanche">>

\* toLocaleDateString('fr-FR', { weekday: 'long' }), in the server's zone.
WeekdayLong(t, zone) == Jours[(((t + ZoneOffset(t, zone)) \div MinPerDay) % 7) + 1]

HourLabels ==
    <<"0h", "1h", "2h", "3h", "4h", "5h", "6h", "7h", "8h", "9h", "10h", "11h",
      "12h", "13h", "14h", "15h", "16h", "17h", "18h", "19h", "20h", "21h",
      "22h", "23h">>

\* `${n}h`
HeureLabel(n) == HourLabels[n + 1]

\* A plausible slip: the day and hour of the instant in UTC.
ExtraireUTC(slotISO, zone) ==
    LET date == ParseDate(slotISO)
    IN  [jourSemaine |-> WeekdayLong(date, UTC), heure |-> HeureLabel(GetHours(date, UTC))]

\* extraireJourEtHeure(slotISO): weekday and hour label of the slot in Paris.
extraireJourEtHeure(slotISO, zone) ==
    LET date == ParseDate(slotISO)
        parisDate == ParseLocal(ToLocaleStringParis(date), zone)
    IN  [jourSemaine |-> WeekdayLong(parisDate, zone),
         heure |-> HeureLabel(GetHours(parisDate, zone))]

\* moniteur.disponibilites?.get(jourSemaine) || []
HeuresDisponibles(dispo, jour) == IF jour \in DOMAIN dispo THEN dispo[jour] ELSE {}

\* A plausible slip: the schedule looked up with the day and hour in UTC.
TravailleUTC(dispo, slot, zone) ==
    LET jh == ExtraireUTC(slot, zone)
    IN  jh.heure \in HeuresDisponibles(dispo, jh.jourSemaine)

\* A plausible slip: the end of the window counted in.
TravailleInclusive(dispo, slot, zone) ==
    LET jh == extraireJourEtHeure(slot, zone)
        prev == extraireJourEtHeure(ToISOString(ParseDate(slot) - 60), zone)
    IN  \/ jh.heure \in HeuresDisponibles(dispo, jh.jourSemaine)
        \/ /\ ParseDate(slot) % 60 = 0
           /\ prev.heure \in HeuresDisponibles(dispo, prev.jourSemaine)

\* heuresDisponibles.includes(heure): the instructor works at that hour.
Travaille(dispo, slot, zone) ==
    LET jh == extraireJourEtHeure(slot, zone)
    IN  jh.heure \in HeuresDisponibles(dispo, jh.jourSemaine)

-----------------------------------------------------------------------------
(* The pure functions on their own: one probe, one application.            *)

\* Zones the process may run in.  Zones that keep one offset through the
\* week: America/New_York (UTC-4), UTC, Africa/Lagos (UTC+1), Asia/Kolkata
\* (UTC+5:30) and Asia/Tokyo (UTC+9).  Zones that change their clocks within
\* the week: at the European instant (Sunday 01:00 UTC) America/Godthab,
\* Atlantic/Azores, Europe/London, Europe/Paris and Europe/Helsinki by one
\* hour and Antarctica/Troll by two; Asia/Jerusalem on Friday 00:00 UTC,
\* Asia/Beirut on Saturday 22:00 UTC and Europe/Chisinau on Sunday 00:00
\* UTC, each by one hour.
ServerZones ==
    {Fixed(0 - 240), UTC, Fixed(60), Fixed(330), Fixed(540)}
        \cup {Zone(off, DstStart, 60) : off \in {0 - 120, 0 - 60, 0, 60, 120}}
        \cup {Zone(0, DstStart, 120),
              Zone(120, 4 * MinPerDay, 60),
              Zone(120, (5 * 24 + 22) * 60, 60),
              Zone(120, 6 * MinPerDay, 60)}

\* A schedule that holds one hour label on one weekday.
Seul(jour, label) == [j \in {jour} |-> {label}]

ProbeDispos == {Seul(Jours[i], "9h") : i \in 1..7} \cup {Seul(Jours[i], "0h") : i \in {2}}

ProbeSlots == {Iso(d, h, mi, off) : d \in 0..LastDay, h \in 0..23, mi \in {0, 30}, off \in {0, 2}}

NoResult == [done |-> FALSE, jourSemaine |-> "", heure |-> "", travaille |-> FALSE]

InitClock ==
    /\ rev = "clock"
    /\ tz \in ServerZones
    /\ probe \in [slot : ProbeSlots, dispo : ProbeDispos]
    /\ result = NoResult
    /\ mails = {}
    /\ emailRateLimits = << >>
    /\ now = 0
    /\ emailLogs = << >>
    /\ users = << >>
    /\ moniteurs = << >>
    /\ reservations = {}
    /\ nextId = 1
    /\ hs = << >>
    /\ ev = << >>

\* Lines 383-389 of the handler applied to the probe.
Extraire ==
    /\ rev = "clock"
    /\ ~result.done
    /\ result' = [done |-> TRUE,
                  jourSemaine |-> extraireJourEtHeure(probe.slot, tz).jourSemaine,
                  heure |-> extraireJourEtHeure(probe.slot, tz).heure,
                  travaille |-> Travaille(probe.dispo, probe.slot, tz)]
    /\ UNCHANGED <<rev, tz, users, moniteurs, reservations, nextId, hs, ev, probe, mails, emailRateLimits, now, emailLogs>>

NextClock == Extraire

SpecClock == InitClock /\ [][NextClock]_vars

\* The Paris wall clock of an instant, in minutes, computed directly.
ParisWall(t) == t + 60 * ParisOffset(t)
ParisHour(t) == (ParisWall(t) % MinPerDay) \div 60
ParisJour(t) == Jours[((ParisWall(t) \div MinPerDay) % 7) + 1]

\* C8: with a schedule that holds only the hour starting at 09:00 on one
\* weekday, a slot at 09:00 Paris time of that weekday passes the
\* availability check and a slot at 10:00 of that weekday does not.
C8_BoundaryExclusive ==
    LET t == ParseDate(probe.slot)
    IN  (result.done /\ probe.dispo = Seul(ParisJour(t), "9h") /\ t % 60 = 0) =>
            /\ (ParisHour(t) = 9 => result.travaille)
            /\ (ParisHour(t) = 10 => ~result.travaille)

C8_Witness ==
    /\ result.done
    /\ probe.dispo = Seul(ParisJour(ParseDate(probe.slot)), "9h")
    /\ ParseDate(probe.slot) % 60 = 0
    /\ ParisHour(ParseDate(probe.slot)) = 10
    /\ ~result.travaille

\* C9: the weekday and hour of the check are those of Paris: hour
\* (h + o) mod 24 for UTC hour h and Paris offset o, on the weekday after
\* the UTC weekday when h + o reaches 24.
C9_ParisLocalTime ==
    LET t == ParseDate(probe.slot)
        h == (t % MinPerDay) \div 60
        o == ParisOffset(t)
        jourUTC == (t \div MinPerDay) % 7
    IN  result.done =>
            /\ result.heure = HeureLabel((h + o) % 24)
            /\ result.jourSemaine =
                   Jours[((jourUTC + (IF h + o >= 24 THEN 1 ELSE 0)) % 7) + 1]

C9_Witness ==
    LET t == ParseDate(probe.slot)
    IN  /\ result.done
        /\ ((t % MinPerDay) \div 60) + ParisOffset(t) >= 24
        /\ result.heure = "0h"
        /\ result.jourSemaine = "mardi"
        /\ probe.dispo = Seul("mardi", "0h")
        /\ result.travaille

-----------------------------------------------------------------------------
(* Stores, requests and answers shared by the revisions.                   *)

Handlers == {"h1", "h2"}

\* Values of a user id in a request: absent, not an ObjectId, an ObjectId
\* of no document, or the id of a document.
NoId == ""
MalformedId == "zz"
UnknownId == "u9"

NoEmail == ""
Emails == {"a@x.fr", "b@x.fr"}

EmptyDispo == [j \in {} |-> {}]
NoDoc == [role |-> "", disponibilites |-> EmptyDispo]

Idle == [pc |-> "idle"]

\* Model.findById(id): the document, or null.
FindUserById(id) == IF id \in DOMAIN users THEN users[id] ELSE NoDoc

\* The answer to a request: res.status(status).json(...); reason names
\* the message.  prior tells whether a reservation made through
\* POST /reservations before the request started, for its slot and
\* instructor and another student, stayed in the store up to the answer.
Answer(kind, status, reason, prior) ==
    [kind |-> kind, status |-> status, reason |-> reason, prior |-> prior]

NoAnswer == Answer("none", 0, "", FALSE)

\* A request may go on to create a document while fewer than MaxRes
\* documents were created or are being created.
Creating ==
    {h \in Handlers : hs[h].pc \in {"checkMon", "checkEleve", "save", "find", "lire", "adminSave"}}
Room == nextId + Cardinality(Creating) <= MaxRes

\* A mail handed to the transport by transporter.sendMail, about the
\* reservation numbered rid; state is "pending" until the transport
\* settles the promise, then "delivered" or "failed"; envois counts the
\* calls of sendMail made for it.
Mail(rid, type) ==
    [rid |-> rid, type |-> type, state |-> "pending", envois |-> 1]

\* transporter.sendMail is called for a mail about reservation rid: a first
\* call adds the mail, a further call for the same mail is one more sending.
Envoyer(ms, rid, type) ==
    IF \E m \in ms : m.rid = rid /\ m.type = type
    THEN {IF m.rid = rid /\ m.type = type
          THEN [m EXCEPT !.state = "pending", !.envois = @ + 1]
          ELSE m : m \in ms}
    ELSE ms \cup {Mail(rid, type)}

\* The mails written by hand (POST /admin/send-email, POST /send-mail-all)
\* addressed to one email that are in one state: envois is their number,
\* one call of sendMail each.
Message(to, state, n) ==
    [rid |-> 0, type |-> "message", to |-> to, state |-> state, envois |-> n]

\* The number of mails to that email in that state.
Nombre(ms, to, state) ==
    IF \E m \in ms : m.type = "message" /\ m.to = to /\ m.state = state
    THEN (CHOOSE m \in ms : m.type = "message" /\ m.to = to /\ m.state = state).envois
    ELSE 0

\* The mails with the number of those to that email in that state set to n.
Compter(ms, to, state, n) ==
    {m \in ms : ~(m.type = "message" /\ m.to = to /\ m.state = state)}
        \cup (IF n = 0 THEN {} ELSE {Message(to, state, n)})

\* recipients.map(user => transporter.sendMail({ to: user.email, ... })):
\* one mail is handed to the transport for each recipient of the list, two
\* recipients with one email getting a mail each.
RECURSIVE SendMails(_, _)
SendMails(ms, tos) ==
    IF tos = << >> THEN ms
    ELSE SendMails(Compter(ms, Head(tos), "pending", Nombre(ms, Head(tos), "pending") + 1),
                   Tail(tos))

\* The number of places of the list that hold x.
Occurrences(seq, x) == Cardinality({i \in DOMAIN seq : seq[i] = x})

\* The list without the first of its places that hold x.
RECURSIVE Retirer(_, _)
Retirer(seq, x) ==
    IF seq = << >> THEN << >>
    ELSE IF Head(seq) = x THEN Tail(seq)
    ELSE <<Head(seq)>> \o Retirer(Tail(seq), x)

\* The promise of one pending mail to that email settles.
Settle(ms, to, ok) ==
    LET state == IF ok THEN "delivered" ELSE "failed"
        rest == Compter(ms, to, "pending", Nombre(ms, to, "pending") - 1)
    IN  Compter(rest, to, state, Nombre(ms, to, state) + 1)

\* The number of calls of sendMail that made these mails.
RECURSIVE Remis(_)
Remis(ms) ==
    IF ms = {} THEN 0
    ELSE LET m == CHOOSE x \in ms : TRUE
         IN  m.envois + Remis(ms \ {m})

\* The reservation read by findById has an email.
AvecEmail(id) == \E r \in reservations : r.id = id /\ r.email # NoEmail

\* A Reservation document.  via (the route that made it), chk (the number
\* of documents made when its conflict query ran) and vu (the schedule its
\* handler read) are history, not fields of the schema.
NewReservation(id, slotISO, email, mid, via, chk, vu) ==
    [id |-> id, slot |-> slotISO, email |-> email, moniteur |-> mid,
     via |-> via, chk |-> chk, vu |-> vu]

-----------------------------------------------------------------------------
(* Revision "avail": src/unnamed/part_004.                                 *)

\* Monday 09:00 in Paris written in UTC and with the offset of Paris,
\* Monday 09:30 and Monday 10:00.
SlotsAvail == {Iso(0, 8, 0, 0), Iso(0, 9, 0, 1), Iso(0, 8, 30, 0), Iso(0, 9, 0, 0)}

\* Schedules a PUT /users/:id/disponibilites carries.
DisposAvail == {Seul("lundi", "9h"), EmptyDispo}

\* A user directory as POST /users leaves it: two instructors, one with
\* a schedule, and a student.
UsersAvail ==
    [u \in {"u1", "u2", "u3"} |->
       CASE u = "u1" -> [role |-> "moniteur", disponibilites |-> Seul("lundi", "9h")]
         [] u = "u2" -> [role |-> "moniteur", disponibilites |-> EmptyDispo]
         [] OTHER -> [role |-> "eleve", disponibilites |-> EmptyDispo]]

InitAvail ==
    /\ rev = "avail"
    /\ tz = UTC
    /\ users = UsersAvail
    /\ moniteurs = << >>
    /\ reservations = {}
    /\ nextId = 1
    /\ hs = [h \in Handlers |-> Idle]
    /\ ev = NoAnswer
    /\ probe = << >>
    /\ result = NoResult
    /\ mails = {}
    /\ emailRateLimits = << >>
    /\ now = 0
    /\ emailLogs = << >>

\* A plausible slip: the conflict query never finds a document.
MoniteurDejaReserveJamais(slotISO, mid) == FALSE

\* Reservation.findOne({ slot, moniteur }) finds a document.
MoniteurDejaReserve(slotISO, mid) ==
    \E r \in reservations : r.slot = slotISO /\ r.moniteur = mid

\* Reservation.findOne({ slot, email, moniteur }) finds a document.
EleveDejaReserve(slotISO, email, mid) ==
    \E r \in reservations : r.slot = slotISO /\ r.email = email /\ r.moniteur = mid

\* A plausible slip: one answer, 404, for both cases.
MoniteurAnswer404(doc) ==
    IF doc = NoDoc \/ doc.role # "moniteur" THEN <<404, "nonTrouve">> ELSE <<0, "">>

\* The answer of POST /reservations to the instructor document it read:
\* 404 for none, 400 for a user that is no instructor, 0 to go on.
MoniteurAnswer(doc) ==
    IF doc = NoDoc THEN <<404, "nonTrouve">>
    ELSE IF doc.role # "moniteur" THEN <<400, "pasMoniteur">>
    ELSE <<0, "">>

\* The same for POST /admin/reservations: 400 in both cases.
AdminMoniteurAnswer(doc) ==
    IF doc = NoDoc \/ doc.role # "moniteur" THEN <<400, "moniteurInvalide">> ELSE <<0, "">>

\* Reservations of another student on the slot and instructor, made
\* through POST /reservations (each was answered 201 when it was saved).
PriorOf(slot, mid, email) ==
    IF ParseDate(slot) = NaN THEN {}
    ELSE {r.id : r \in {x \in reservations :
                          /\ x.via = "post"
                          /\ x.slot = ToISOString(ParseDate(slot))
                          /\ x.moniteur = mid
                          /\ x.email # email}}

Reject(h, a) ==
    /\ ev' = a
    /\ hs' = [hs EXCEPT ![h] = Idle]
    /\ UNCHANGED <<rev, tz, users, moniteurs, reservations, nextId, probe, result, mails, emailRateLimits, now, emailLogs>>

\* Lines 368-396 and 487-510: the checks up to the instructor's schedule.
StartAvail(h, kind, slot, email, mid, verdict) ==
    LET doc == IF mid \in {NoId, MalformedId} THEN NoDoc ELSE FindUserById(mid)
        ans(status, reason) == Answer(kind, status, reason, PriorOf(slot, mid, email) # {})
    IN  /\ rev = "avail"
        /\ hs[h].pc = "idle"
        /\ IF slot = NoSlot \/ mid = NoId THEN Reject(h, ans(400, "requis"))
           ELSE IF ParseDate(slot) = NaN THEN Reject(h, ans(400, "slotInvalide"))
           ELSE IF mid = MalformedId THEN Reject(h, ans(500, "erreurServeur"))
           ELSE IF verdict[1] # 0 THEN Reject(h, ans(verdict[1], verdict[2]))
           ELSE IF ~Travaille(doc.disponibilites, slot, tz) THEN Reject(h, ans(400, "horsPlanning"))
           ELSE /\ Room
                /\ hs' = [hs EXCEPT ![h] =
                            [pc |-> "checkMon", kind |-> kind,
                             dateSlot |-> ParseDate(slot), email |-> email, mid |-> mid,
                             moniteur |-> doc, chk |-> 0,
                             prior |-> PriorOf(slot, mid, email)]]
                /\ UNCHANGED <<rev, tz, users, moniteurs, reservations, nextId, ev, probe, result, mails, emailRateLimits, now, emailLogs>>

\* app.post('/reservations'), to its first query on the Reservation store.
PostReservations(h, slot, email, mid) ==
    StartAvail(h, "post", slot, email, mid,
               MoniteurAnswer(IF mid \in {NoId, MalformedId} THEN NoDoc ELSE FindUserById(mid)))

\* app.post('/admin/reservations'), to its query on the Reservation store.
AdminReservations(h, slot, email, mid) ==
    StartAvail(h, "admin", slot, email, mid,
               AdminMoniteurAnswer(IF mid \in {NoId, MalformedId} THEN NoDoc ELSE FindUserById(mid)))

AnswerOf(h, status, reason) == Answer(hs[h].kind, status, reason, hs[h].prior # {})

DocOf(h, kind, chk) ==
    NewReservation(nextId, ToISOString(hs[h].dateSlot), hs[h].email, hs[h].mid,
                   kind, chk, hs[h].moniteur.disponibilites)

\* A plausible slip: the document is saved before the conflict is looked for.
CheckMoniteurSaveFirst(h, kind) ==
    /\ rev = "avail"
    /\ hs[h].pc = "checkMon"
    /\ hs[h].kind = kind
    /\ reservations' = reservations \cup {DocOf(h, kind, nextId)}
    /\ nextId' = nextId + 1
    /\ ev' = AnswerOf(h, 409, "moniteurReserve")
    /\ hs' = [hs EXCEPT ![h] = Idle]
    /\ UNCHANGED <<rev, tz, users, moniteurs, probe, result, mails, emailRateLimits, now, emailLogs>>

\* Lines 396-397 and 510-511: the instructor's conflict query returns.
CheckMoniteur(h, kind) ==
    /\ rev = "avail"
    /\ hs[h].pc = "checkMon"
    /\ hs[h].kind = kind
    /\ IF MoniteurDejaReserve(ToISOString(hs[h].dateSlot), hs[h].mid)
       THEN Reject(h, AnswerOf(h, 409, "moniteurReserve"))
       ELSE /\ hs' = [hs EXCEPT ![h].pc = IF kind = "post" THEN "checkEleve" ELSE "save",
                                ![h].chk = nextId]
            /\ UNCHANGED <<rev, tz, users, moniteurs, reservations, nextId, ev, probe, result, mails, emailRateLimits, now, emailLogs>>

PostCheckMoniteur(h) == CheckMoniteur(h, "post")

AdminCheckMoniteur(h) == CheckMoniteur(h, "admin")

\* Lines 400-401: the student's duplicate query returns.
PostCheckEleve(h) ==
    /\ rev = "avail"
    /\ hs[h].pc = "checkEleve"
    /\ IF EleveDejaReserve(ToISOString(hs[h].dateSlot), hs[h].email, hs[h].mid)
       THEN Reject(h, AnswerOf(h, 409, "eleveReserve"))
       ELSE /\ hs' = [hs EXCEPT ![h].pc = "save"]
            /\ UNCHANGED <<rev, tz, users, moniteurs, reservations, nextId, ev, probe, result, mails, emailRateLimits, now, emailLogs>>

\* Lines 403-427 and 513-516: newReservation.save() returns; the mail is
\* handed to the transport without being awaited and 201 is answered.
Save(h, kind) ==
    /\ rev = "avail"
    /\ hs[h].pc = "save"
    /\ hs[h].kind = kind
    /\ reservations' = reservations \cup {DocOf(h, kind, hs[h].chk)}
    /\ nextId' = nextId + 1
    /\ mails' = IF kind = "post" /\ hs[h].email # NoEmail
                THEN mails \cup {Mail(nextId, "confirmation")}
                ELSE mails
    /\ ev' = AnswerOf(h, 201, "creee")
    /\ hs' = [hs EXCEPT ![h] = Idle]
    /\ UNCHANGED <<rev, tz, users, moniteurs, probe, result, emailRateLimits, now, emailLogs>>

PostSave(h) == Save(h, "post")

AdminSave(h) == Save(h, "admin")

\* A cancelled reservation no longer counts for the requests in flight.
Forget(id) ==
    [h \in Handlers |->
       IF hs[h].pc \in {"checkMon", "checkEleve", "save"}
       THEN [hs[h] EXCEPT !.prior = @ \ {id}]
       ELSE hs[h]]

\* app.delete('/reservations/:id'), lines 433-439: findById returns.
DeleteReservation(h, id) ==
    /\ rev = "avail"
    /\ hs[h].pc = "idle"
    /\ IF \E r \in reservations : r.id = id
       THEN /\ hs' = [hs EXCEPT ![h] = [pc |-> "deleteOne", kind |-> "delete", rid |-> id,
                                             mail |-> AvecEmail(id)]]
            /\ UNCHANGED <<rev, tz, users, moniteurs, reservations, nextId, ev, probe, result, mails, emailRateLimits, now, emailLogs>>
       ELSE Reject(h, Answer("delete", 404, "nonTrouvee", FALSE))

\* Lines 439-454: deleteOne returns; mail and answer 200.
DeleteOne(h) ==
    /\ rev = "avail"
    /\ hs[h].pc = "deleteOne"
    /\ reservations' = {r \in reservations : r.id # hs[h].rid}
    /\ mails' = IF hs[h].mail THEN Envoyer(mails, hs[h].rid, "annulation") ELSE mails
    /\ ev' = Answer("delete", 200, "annulee", FALSE)
    /\ hs' = [Forget(hs[h].rid) EXCEPT ![h] = Idle]
    /\ UNCHANGED <<rev, tz, users, moniteurs, nextId, probe, result, emailRateLimits, now, emailLogs>>

\* app.put('/users/:id/disponibilites'), lines 255-272, to the call of
\* user.save().  complete tells whether the body has disponibilites; an id
\* that is no ObjectId makes findById throw, which the catch answers.
PutDisponibilites(h, id, complete, dispo) ==
    /\ rev = "avail"
    /\ hs[h].pc = "idle"
    /\ IF ~complete
       THEN /\ ev' = Answer("dispo", 400, "requises", FALSE)
            /\ hs' = hs
       ELSE IF id = MalformedId
       THEN /\ ev' = Answer("dispo", 500, "erreurServeur", FALSE)
            /\ hs' = hs
       ELSE IF id \notin DOMAIN users
       THEN /\ ev' = Answer("dispo", 404, "nonTrouve", FALSE)
            /\ hs' = hs
       ELSE IF users[id].role # "moniteur"
       THEN /\ ev' = Answer("dispo", 400, "pasMoniteur", FALSE)
            /\ hs' = hs
       ELSE /\ hs' = [hs EXCEPT ![h] = [pc |-> "putSave", id |-> id, dispo |-> dispo]]
            /\ ev' = ev
    /\ UNCHANGED <<rev, tz, users, moniteurs, reservations, nextId, probe, result, mails, emailRateLimits, now, emailLogs>>

\* Lines 272-280: user.save() returns, having written the schedule; 200.
PutSave(h) ==
    /\ rev = "avail"
    /\ hs[h].pc = "putSave"
    /\ users' = [users EXCEPT ![hs[h].id].disponibilites = hs[h].dispo]
    /\ ev' = Answer("dispo", 200, "misAJour", FALSE)
    /\ hs' = [hs EXCEPT ![h] = Idle]
    /\ UNCHANGED <<rev, tz, moniteurs, reservations, nextId, probe, result, mails, emailRateLimits, now, emailLogs>>

\* PUT requests that are answered without a write: <<id, complete>>.
BadPuts == {<<"u3", TRUE>>, <<UnknownId, TRUE>>, <<MalformedId, TRUE>>, <<"u1", FALSE>>}

\* Slots the administrator books: Monday 09:00 and 10:00 in Paris.
SlotsAdmin == {Iso(0, 8, 0, 0), Iso(0, 9, 0, 0)}

\* Bodies that fail a field check or the instructor check.
BadBodies ==
    {<<NotADate, "u1">>, <<Iso(0, 8, 0, 0), NoId>>, <<Iso(0, 8, 0, 0), UnknownId>>,
     <<Iso(0, 8, 0, 0), "u3">>}

\* A request with a bad body is answered in its first step and changes no
\* handler, so one handler serves them, as it does the requests that name
\* the second instructor.  The schedule is changed by one request at a
\* time, which overlaps with the requests of the other handler.
NextAvail ==
    \/ \E h \in Handlers, slot \in SlotsAvail, email \in Emails :
           PostReservations(h, slot, email, "u1")
    \/ \E slot \in SlotsAvail, email \in Emails :
           PostReservations("h1", slot, email, "u2")
    \/ \E h \in Handlers, slot \in SlotsAdmin :
           AdminReservations(h, slot, "a@x.fr", "u1")
    \/ \E body \in BadBodies :
           \/ PostReservations("h1", body[1], "b@x.fr", body[2])
           \/ AdminReservations("h1", body[1], "b@x.fr", body[2])
    \/ \E h \in Handlers :
           \/ PostCheckMoniteur(h)
           \/ PostCheckEleve(h)
           \/ PostSave(h)
           \/ AdminCheckMoniteur(h)
           \/ AdminSave(h)
           \/ DeleteOne(h)
    \/ \E h \in Handlers, id \in 1..MaxRes : DeleteReservation(h, id)
    \/ \E dispo \in DisposAvail : PutDisponibilites("h2", "u1", TRUE, dispo)
    \/ \E put \in BadPuts : PutDisponibilites("h1", put[1], put[2], EmptyDispo)
    \/ PutSave("h2")

SpecAvail == InitAvail /\ [][NextAvail]_vars

-----------------------------------------------------------------------------
(* Revision "tag": src/server.js, lines 1-525.  Instructors are documents  *)
(* of a Moniteur collection and a request names one by tag or by id.  The  *)
(* handlers are modelled as routes of a running server; line 73 calls      *)
(* nodemailer.createTransporter, which nodemailer does not export          *)
(* (createTransport), so the file as it stands throws while loading.       *)

NoTag == ""

\* The Moniteur collection: one instructor, tag M1.
MoniteursTag == [m \in {"m1"} |-> [tag |-> "M1"]]

\* The ids of the Moniteur documents, in the order in which they are given.
MoniteurIds == <<"m1", "m2", "m3", "m4">>

\* The User collection of this revision, in the order of creation; every
\* user has an email (POST /users requires it).
UsersTag ==
    <<[role |-> "eleve", email |-> "a@x.fr", password |-> "p"],
      [role |-> "eleve", email |-> "b@x.fr", password |-> "p"]>>

\* A Reservation document of this revision; moniteur is the tag.
TagReservation(id, slotISO, email, tag, mid) ==
    [id |-> id, slot |-> slotISO, email |-> email, moniteur |-> tag, moniteurId |-> mid]

\* Reservation.findOne({ slot, $or: [{ moniteur }, { moniteurId }] }) finds
\* a document.  A field the request leaves out is sent as null and matches
\* the documents that lack it: absent equals absent.
TagMoniteurDejaReserve(slotISO, tag, mid) ==
    \E r \in reservations : r.slot = slotISO /\ (r.moniteur = tag \/ r.moniteurId = mid)

\* A plausible slip: the student's query never finds a document.
TagEleveDejaReserveJamais(slotISO, email) == FALSE

\* Reservation.findOne({ slot, email }) finds a document.
TagEleveDejaReserve(slotISO, email) ==
    \E r \in reservations : r.slot = slotISO /\ r.email = email

\* Moniteur.findOne({ tag }): the id of the document, or none.
FindMoniteurByTag(tag) ==
    IF \E m \in DOMAIN moniteurs : moniteurs[m].tag = tag
    THEN CHOOSE m \in DOMAIN moniteurs : moniteurs[m].tag = tag
    ELSE NoId

\* app.post('/reservations'), lines 240-273: the field checks and the
\* instructor's conflict query.
TagPostReservations(h, slot, email, tag, mid) ==
    LET ans(status, reason) == Answer("post", status, reason, FALSE)
    IN  /\ rev = "tag"
        /\ hs[h].pc = "idle"
        /\ IF slot = NoSlot THEN Reject(h, ans(400, "slotRequis"))
           ELSE IF tag = NoTag /\ mid = NoId THEN Reject(h, ans(400, "moniteurRequis"))
           ELSE IF email = NoEmail THEN Reject(h, ans(400, "emailRequis"))
           ELSE IF ParseDate(slot) = NaN THEN Reject(h, ans(400, "slotInvalide"))
           ELSE IF TagMoniteurDejaReserve(ToISOString(ParseDate(slot)), tag, mid)
           THEN Reject(h, ans(409, "moniteurReserve"))
           ELSE /\ Room
                /\ hs' = [hs EXCEPT ![h] =
                            [pc |-> "checkEleve", kind |-> "post",
                             dateSlot |-> ParseDate(slot), email |-> email,
                             tag |-> tag, mid |-> mid]]
                /\ UNCHANGED <<rev, tz, users, moniteurs, reservations, nextId, ev, probe, result, mails, emailRateLimits, now, emailLogs>>

\* Lines 276-285: the student's duplicate query returns.
TagCheckEleve(h) ==
    /\ rev = "tag"
    /\ hs[h].pc = "checkEleve"
    /\ IF TagEleveDejaReserve(ToISOString(hs[h].dateSlot), hs[h].email)
       THEN Reject(h, Answer("post", 409, "eleveReserve", FALSE))
       ELSE /\ hs' = [hs EXCEPT ![h].pc = "find"]
            /\ UNCHANGED <<rev, tz, users, moniteurs, reservations, nextId, ev, probe, result, mails, emailRateLimits, now, emailLogs>>

\* Lines 288-303: Moniteur.findById or Moniteur.findOne({ tag }) returns.
\* An id that is no ObjectId makes findById throw: 500.
TagFindMoniteur(h) ==
    /\ rev = "tag"
    /\ hs[h].pc = "find"
    /\ IF hs[h].mid # NoId
       THEN IF hs[h].mid = MalformedId
            THEN Reject(h, Answer("post", 500, "erreurServeur", FALSE))
            ELSE IF hs[h].mid \notin DOMAIN moniteurs
            THEN Reject(h, Answer("post", 404, "nonTrouve", FALSE))
            ELSE /\ hs' = [hs EXCEPT ![h].pc = "save", ![h].tag = moniteurs[hs[h].mid].tag]
                 /\ UNCHANGED <<rev, tz, users, moniteurs, reservations, nextId, ev, probe, result, mails, emailRateLimits, now, emailLogs>>
       ELSE /\ hs' = [hs EXCEPT ![h].pc = "save", ![h].mid = FindMoniteurByTag(hs[h].tag)]
            /\ UNCHANGED <<rev, tz, users, moniteurs, reservations, nextId, ev, probe, result, mails, emailRateLimits, now, emailLogs>>

\* Lines 306-338: newReservation.save() returns; mail, answer 201.
TagSave(h) ==
    /\ rev = "tag"
    /\ hs[h].pc = "save"
    /\ reservations' = reservations \cup
            {TagReservation(nextId, ToISOString(hs[h].dateSlot), hs[h].email,
                            hs[h].tag, hs[h].mid)}
    /\ nextId' = nextId + 1
    /\ mails' = mails \cup {Mail(nextId, "confirmation")}
    /\ ev' = Answer("post", 201, "creee", FALSE)
    /\ hs' = [hs EXCEPT ![h] = Idle]
    /\ UNCHANGED <<rev, tz, users, moniteurs, probe, result, emailRateLimits, now, emailLogs>>

\* app.delete('/reservations/:id'), lines 346-353: findById returns.
TagDeleteReservation(h, id) ==
    /\ rev = "tag"
    /\ hs[h].pc = "idle"
    /\ IF \E r \in reservations : r.id = id
       THEN /\ hs' = [hs EXCEPT ![h] = [pc |-> "deleteOne", kind |-> "delete", rid |-> id,
                                             mail |-> AvecEmail(id)]]
            /\ UNCHANGED <<rev, tz, users, moniteurs, reservations, nextId, ev, probe, result, mails, emailRateLimits, now, emailLogs>>
       ELSE Reject(h, Answer("delete", 404, "nonTrouvee", FALSE))

\* Lines 355-375: deleteOne returns; mail and answer 200.
TagDeleteOne(h) ==
    /\ rev = "tag"
    /\ hs[h].pc = "deleteOne"
    /\ reservations' = {r \in reservations : r.id # hs[h].rid}
    /\ mails' = IF hs[h].mail THEN Envoyer(mails, hs[h].rid, "annulation") ELSE mails
    /\ ev' = Answer("delete", 200, "annulee", FALSE)
    /\ hs' = [hs EXCEPT ![h] = Idle]
    /\ UNCHANGED <<rev, tz, users, moniteurs, nextId, probe, result, emailRateLimits, now, emailLogs>>

\* The Moniteur documents made so far: m1, and those made by POST /moniteurs,
\* which no request of the model deletes.
MoniteursCrees == 1 + Cardinality(DOMAIN moniteurs \ {"m1"})

\* app.post('/moniteurs'), lines 149-163: the field check and
\* Moniteur.findOne({ tag }); complete tells whether nom and tag are in the
\* body.
TagPostMoniteurs(h, complete, tag) ==
    /\ rev = "tag"
    /\ hs[h].pc = "idle"
    /\ IF ~complete THEN Reject(h, Answer("moniteur", 400, "nomTagRequis", FALSE))
       ELSE IF FindMoniteurByTag(tag) # NoId
       THEN Reject(h, Answer("moniteur", 409, "tagExiste", FALSE))
       ELSE /\ MoniteursCrees < MaxMoniteurs
            /\ hs' = [hs EXCEPT ![h] = [pc |-> "saveMoniteur", tag |-> tag]]
            /\ UNCHANGED <<rev, tz, users, moniteurs, reservations, nextId, ev, probe, result, mails, emailRateLimits, now, emailLogs>>

\* Lines 162-165: newMoniteur.save() returns; 201.
TagSaveMoniteur(h) ==
    /\ rev = "tag"
    /\ hs[h].pc = "saveMoniteur"
    /\ moniteurs' = [m \in DOMAIN moniteurs \cup {MoniteurIds[MoniteursCrees + 1]} |->
                        IF m \in DOMAIN moniteurs THEN moniteurs[m]
                        ELSE [tag |-> hs[h].tag]]
    /\ ev' = Answer("moniteur", 201, "cree", FALSE)
    /\ hs' = [hs EXCEPT ![h] = Idle]
    /\ UNCHANGED <<rev, tz, users, reservations, nextId, probe, result, mails, emailRateLimits, now, emailLogs>>

\* app.delete('/moniteurs/:id'), lines 171-181:
\* Reservation.countDocuments({ moniteurId: id }) returns; 400 when the
\* instructor has reservations, else findByIdAndDelete is called.
TagDeleteMoniteurs(h, id) ==
    /\ rev = "tag"
    /\ hs[h].pc = "idle"
    /\ IF \E r \in reservations : r.moniteurId = id
       THEN Reject(h, Answer("moniteur", 400, "reservationsActives", FALSE))
       ELSE /\ hs' = [hs EXCEPT ![h] = [pc |-> "deleteMoniteur", id |-> id]]
            /\ UNCHANGED <<rev, tz, users, moniteurs, reservations, nextId, ev, probe, result, mails, emailRateLimits, now, emailLogs>>

\* Lines 183-188: Moniteur.findByIdAndDelete(id) returns; an id that is no
\* ObjectId makes it throw (500), 404 for no document, else 200.
TagFindByIdAndDelete(h) ==
    /\ rev = "tag"
    /\ hs[h].pc = "deleteMoniteur"
    /\ IF hs[h].id = MalformedId
       THEN Reject(h, Answer("moniteur", 500, "erreurServeur", FALSE))
       ELSE IF hs[h].id \notin DOMAIN moniteurs
       THEN Reject(h, Answer("moniteur", 404, "nonTrouve", FALSE))
       ELSE /\ moniteurs' = [m \in DOMAIN moniteurs \ {hs[h].id} |-> moniteurs[m]]
            /\ ev' = Answer("moniteur", 200, "supprime", FALSE)
            /\ hs' = [hs EXCEPT ![h] = Idle]
            /\ UNCHANGED <<rev, tz, users, reservations, nextId, probe, result, mails, emailRateLimits, now, emailLogs>>

\* The answer of POST /send-mail-all: the mails accepted and rejected.
AnswerMailAll(sent, failed) ==
    [kind |-> "mailAll", status |-> 200, reason |-> "envoyes", prior |-> FALSE,
     sent |-> sent, failed |-> failed]

\* User.find({}, "email prenom nom") without the users that have no email
\* (line 400): their emails, in the order of the collection.
RECURSIVE EmailsOf(_)
EmailsOf(us) ==
    IF us = << >> THEN << >>
    ELSE (IF Head(us).email = NoEmail THEN << >> ELSE <<Head(us).email>>)
             \o EmailsOf(Tail(us))

\* app.post('/send-mail-all'), lines 386-403: the field check, User.find
\* and the call of sendMail for the first user; complete tells whether
\* subject and message are in the body.
TagSendMailAll(h, complete) ==
    /\ rev = "tag"
    /\ hs[h].pc = "idle"
    /\ IF ~complete THEN Reject(h, Answer("mailAll", 400, "sujetRequis", FALSE))
       ELSE IF EmailsOf(users) = << >>
       THEN Reject(h, AnswerMailAll(0, 0))
       ELSE /\ Remis({m \in mails : m.type = "message"}) + Len(EmailsOf(users))
                   <= MaxMessages
            /\ mails' = SendMails(mails, <<Head(EmailsOf(users))>>)
            /\ hs' = [hs EXCEPT ![h] =
                        [pc |-> "mailAll", to |-> Head(EmailsOf(users)),
                         reste |-> Tail(EmailsOf(users)), sent |-> 0, failed |-> 0]]
            /\ UNCHANGED <<rev, tz, users, moniteurs, reservations, nextId, ev, probe, result, emailRateLimits, now, emailLogs>>

\* Lines 402-421: the awaited sendMail settles and is counted; sendMail is
\* called for the next user, or the counts are answered.
TagMailAllSettles(h, ok) ==
    LET sent == hs[h].sent + (IF ok THEN 1 ELSE 0)
        failed == hs[h].failed + (IF ok THEN 0 ELSE 1)
    IN  /\ rev = "tag"
        /\ hs[h].pc = "mailAll"
        /\ IF hs[h].reste = << >>
           THEN /\ mails' = Settle(mails, hs[h].to, ok)
                /\ ev' = AnswerMailAll(sent, failed)
                /\ hs' = [hs EXCEPT ![h] = Idle]
           ELSE /\ mails' = SendMails(Settle(mails, hs[h].to, ok), <<Head(hs[h].reste)>>)
                /\ ev' = ev
                /\ hs' = [hs EXCEPT ![h] =
                            [pc |-> "mailAll", to |-> Head(hs[h].reste),
                             reste |-> Tail(hs[h].reste), sent |-> sent,
                             failed |-> failed]]
        /\ UNCHANGED <<rev, tz, users, moniteurs, reservations, nextId, probe, result, emailRateLimits, now, emailLogs>>

\* Slots of the requests: Monday 08:00 UTC in two spellings, and 09:00.
SlotsTag == {Iso(0, 8, 0, 0), Iso(0, 9, 0, 1), Iso(0, 9, 0, 0)}

TagsBody == {NoTag, "M1", "M7"}

\* The instructor ids of the bodies: absent, the first instructor, and the
\* one POST /moniteurs makes.
TagMids == {NoId, "m1", "m2"}

InitTag ==
    /\ rev = "tag"
    /\ tz = UTC
    /\ users = UsersTag
    /\ moniteurs = MoniteursTag
    /\ reservations = {}
    /\ nextId = 1
    /\ hs = [h \in Handlers |-> Idle]
    /\ ev = NoAnswer
    /\ probe = << >>
    /\ result = NoResult
    /\ mails = {}
    /\ emailRateLimits = << >>
    /\ now = 0
    /\ emailLogs = << >>

\* The requests are served one after the other: one handler runs.  The
\* transport does not act here: the mails of the reservations stay pending,
\* and POST /send-mail-all, which awaits the transport and touches no other
\* store, is served in SpecMail.
NextTag ==
    \/ \E slot \in SlotsTag, email \in Emails, tag \in TagsBody, mid \in TagMids :
           TagPostReservations("h1", slot, email, tag, mid)
    \/ TagCheckEleve("h1")
    \/ TagFindMoniteur("h1")
    \/ TagSave("h1")
    \/ \E id \in 1..MaxRes : TagDeleteReservation("h1", id)
    \/ TagDeleteOne("h1")
    \/ \E complete \in BOOLEAN : TagPostMoniteurs("h1", complete, "M7")
    \/ TagSaveMoniteur("h1")
    \/ \E id \in {"m1", UnknownId, MalformedId} : TagDeleteMoniteurs("h1", id)
    \/ TagFindByIdAndDelete("h1")

SpecTag == InitTag /\ [][NextTag]_vars

\* A reservation of the student at the slot is persisted.
ElevePersiste(slotISO, email) ==
    \E r \in reservations : r.slot = slotISO /\ r.email = email

\* C12: in the tag-based revision, with requests served one after the
\* other, no two persisted reservations have the same slot and the same
\* student email; a POST /reservations for a persisted (slot, email) pair,
\* whichever instructor it names by tag or id, is answered 409 by the
\* instructor's or by the student's check and writes nothing.
C12_OnePerStudentAndSlot ==
    /\ [](\A a, b \in reservations : (a.slot = b.slot /\ a.email = b.email) => a = b)
    /\ [][/\ \A slot \in SlotsTag, email \in Emails, tag \in TagsBody, mid \in TagMids :
               (/\ tag # NoTag \/ mid # NoId
                /\ ElevePersiste(ToISOString(ParseDate(slot)), email)
                /\ TagPostReservations("h1", slot, email, tag, mid))
               => \/ /\ ev' = Answer("post", 409, "moniteurReserve", FALSE)
                     /\ hs'["h1"] = Idle
                     /\ reservations' = reservations
                  \/ /\ hs'["h1"].pc = "checkEleve"
                     /\ hs'["h1"].email = email
                     /\ hs'["h1"].dateSlot = ParseDate(slot)
                     /\ reservations' = reservations
          /\ (/\ rev = "tag"
              /\ hs["h1"].pc = "checkEleve"
              /\ hs'["h1"].pc # "checkEleve"
              /\ ElevePersiste(ToISOString(hs["h1"].dateSlot), hs["h1"].email))
             => /\ ev' = Answer("post", 409, "eleveReserve", FALSE)
                /\ hs'["h1"] = Idle
                /\ reservations' = reservations]_vars

C12_Witness ==
    /\ rev = "tag"
    /\ ev = Answer("post", 409, "eleveReserve", FALSE)
    /\ \E r \in reservations :
          /\ r.email = "a@x.fr"
          /\ r.moniteur = "M1"
          /\ r.moniteurId = "m1"
    /\ Cardinality(reservations) = 1

-----------------------------------------------------------------------------
(* The mail transport.  transporter.sendMail returns a promise that the    *)
(* handlers do not await; it settles later, and a rejection reaches        *)
(* .catch(console.error): src/unnamed/part_004 lines 420-425,              *)
(* src/server.js lines 325-333.                                            *)

\* A plausible slip: the rejection handler calls sendMail again.
Renvoye(m) == [m EXCEPT !.envois = @ + 1]

\* .catch(console.error): the failure is written to the log.
Journalise(m) == [m EXCEPT !.state = "failed"]

\* The promise of a pending mail resolves.
MailDelivered(m) ==
    /\ m \in mails
    /\ m.state = "pending"
    /\ mails' = (mails \ {m}) \cup {[m EXCEPT !.state = "delivered"]}
    /\ UNCHANGED <<rev, tz, users, moniteurs, reservations, nextId, hs, ev, probe, result, emailRateLimits, now, emailLogs>>

\* The promise of a pending mail rejects.
MailFails(m) ==
    /\ m \in mails
    /\ m.state = "pending"
    /\ mails' = (mails \ {m}) \cup {Journalise(m)}
    /\ UNCHANGED <<rev, tz, users, moniteurs, reservations, nextId, hs, ev, probe, result, emailRateLimits, now, emailLogs>>

\* Every mail a run can hand to the transport, in every state.
MailsPossibles ==
    { [rid |-> i, type |-> t, state |-> st, envois |-> 1] :
         i \in 1..MaxRes, t \in {"confirmation", "annulation"},
         st \in {"pending", "delivered", "failed"} }

\* Either store-backed revision, with no reservation; the tag revision has
\* the two accounts POST /send-mail-all writes to.
InitMail ==
    /\ rev \in {"avail", "tag"}
    /\ tz = UTC
    /\ users = IF rev = "avail" THEN UsersAvail ELSE UsersTag
    /\ moniteurs = IF rev = "tag" THEN MoniteursTag ELSE << >>
    /\ reservations = {}
    /\ nextId = 1
    /\ hs = [h \in Handlers |-> Idle]
    /\ ev = NoAnswer
    /\ probe = << >>
    /\ result = NoResult
    /\ mails = {}
    /\ emailRateLimits = << >>
    /\ now = 0
    /\ emailLogs = << >>

\* The requests are served one after the other, and the transport settles
\* the mails at any time.
NextMail ==
    \/ \E slot \in SlotsAdmin, email \in Emails :
           PostReservations("h1", slot, email, "u1")
    \/ PostCheckMoniteur("h1")
    \/ PostCheckEleve("h1")
    \/ PostSave("h1")
    \/ DeleteOne("h1")
    \/ \E slot \in SlotsAdmin, email \in Emails :
           TagPostReservations("h1", slot, email, "M1", NoId)
    \/ TagCheckEleve("h1")
    \/ TagFindMoniteur("h1")
    \/ TagSave("h1")
    \/ TagDeleteOne("h1")
    \/ \E id \in 1..MaxRes :
           \/ DeleteReservation("h1", id)
           \/ TagDeleteReservation("h1", id)
    \/ \E complete \in BOOLEAN : TagSendMailAll("h1", complete)
    \/ \E ok \in BOOLEAN : TagMailAllSettles("h1", ok)
    \/ \E m \in MailsPossibles :
           \/ MailDelivered(m)
           \/ MailFails(m)

SpecMail == InitMail /\ [][NextMail]_vars

\* The confirmation mails handed to the transport.
Confirmations(ms) == {m \in ms : m.type = "confirmation"}

\* C16: in the store-backed revisions of POST /reservations, the step that
\* hands a confirmation mail to the transport answers 201 with the
\* reservation persisted while the mail is still pending; the step in which
\* the mail fails changes neither the answer nor the reservations nor any
\* handler; and sendMail is called once for each mail.
C16_MailFailureChangesNothing ==
    /\ [](\A m \in mails : m.envois = 1)
    /\ [][ /\ \A m \in Confirmations(mails') \ Confirmations(mails) :
                 \/ \E old \in mails : old.rid = m.rid /\ old.type = m.type
                 \/ /\ m.state = "pending"
                    /\ ev'.kind = "post"
                    /\ ev'.status = 201
                    /\ \E r \in reservations' \ reservations : r.id = m.rid
           /\ \A m \in Confirmations(mails) :
                 MailFails(m) =>
                    /\ reservations' = reservations
                    /\ ev' = ev
                    /\ hs' = hs
                    /\ nextId' = nextId
                    /\ \A n \in mails' : n.rid = m.rid /\ n.type = m.type
                                            => n.state = "failed"
         ]_vars

\* The confirmation mail of a persisted reservation failed, and the last
\* answer is the 201 of its request.
C16_Witness ==
    /\ ev.kind = "post"
    /\ ev.status = 201
    /\ \E m \in mails, r \in reservations :
          /\ m.type = "confirmation"
          /\ m.state = "failed"
          /\ r.id = m.rid

-----------------------------------------------------------------------------
(* POST /admin/send-email: src/unnamed/part_004, lines 105-152 and         *)
(* 527-630.  requireAdmin awaits User.findOne; the handler runs            *)
(* checkRateLimit, which is synchronous, awaits the recipients, awaits     *)
(* Promise.all of one sendMail per recipient and awaits emailLog.save.     *)
(* Its catch writes an EmailLog of its own, so the rejection of the store  *)
(* calls of its try block is part of the handler; the catch of             *)
(* requireAdmin answers 500.  The recipients are a list: two students with *)
(* one email get a mail each.                                              *)

RATE_LIMIT == 50

RATE_WINDOW == 3600000

\* The values Date.now() takes: a start, the last millisecond of the window
\* opened at the start, and the first millisecond after it.
Instants == {0, RATE_WINDOW, RATE_WINDOW + 1}

\* The User collection: two administrators and a student.
UsersRate ==
    [u \in {"u1", "u2", "u3"} |->
       CASE u = "u1" -> [role |-> "admin", email |-> "a@x.fr"]
         [] u = "u2" -> [role |-> "admin", email |-> "b@x.fr"]
         [] OTHER -> [role |-> "eleve", email |-> "c@x.fr"]]

\* String.prototype.toLowerCase on the emails of the requests.
ToLowerCase(e) == IF e = "A@x.fr" THEN "a@x.fr" ELSE e

\* A plausible slip: the query never finds a document.
FindUserJamais(email) == NoDoc

\* User.findOne({ email }): a document, or NoDoc.
FindUserByEmail(email) ==
    IF \E u \in DOMAIN users : users[u].email = email
    THEN users[CHOOSE u \in DOMAIN users : users[u].email = email]
    ELSE NoDoc

\* A plausible slip: the comparison includes the limit.
JusquALaLimite(limit) == limit.count <= RATE_LIMIT

\* Line 143: limit.count < RATE_LIMIT.
SousLaLimite(limit) == limit.count < RATE_LIMIT

\* Line 137: there is no window for the email, or it has expired.
SansFenetre(limits, adminEmail, t) ==
    \/ adminEmail \notin DOMAIN limits
    \/ t > limits[adminEmail].resetTime

\* emailRateLimits.set(adminEmail, value).
MapSet(limits, adminEmail, value) ==
    [e \in DOMAIN limits \cup {adminEmail} |->
        IF e = adminEmail THEN value ELSE limits[e]]

\* checkRateLimit at time t: the verdict, and the Map it leaves.
checkRateLimit(limits, adminEmail, t) ==
    IF SansFenetre(limits, adminEmail, t)
    THEN [allowed |-> TRUE, remaining |-> RATE_LIMIT - 1,
          limits |-> MapSet(limits, adminEmail,
                            [count |-> 1, resetTime |-> t + RATE_WINDOW])]
    ELSE IF SousLaLimite(limits[adminEmail])
    THEN [allowed |-> TRUE,
          remaining |-> RATE_LIMIT - (limits[adminEmail].count + 1),
          limits |-> [limits EXCEPT ![adminEmail].count = @ + 1]]
    ELSE [allowed |-> FALSE, remaining |-> 0, limits |-> limits]

\* A plausible slip: any persisted user passes.
EstUtilisateur(admin) == admin # NoDoc

\* Line 115: the user exists and its role is 'admin'.
EstAdmin(admin) == admin # NoDoc /\ admin.role = "admin"

\* The ids of the User documents in the order in which User.find lists them
\* (the order of their creation).
OrdreUsers == <<"u1", "u2", "u3", "u4">>

\* students.filter(s => s.email), line 551: the emails of the students
\* among the first n documents, one place for each student.
RECURSIVE EmailsEleves(_)
EmailsEleves(n) ==
    IF n = 0 THEN << >>
    ELSE EmailsEleves(n - 1) \o
         (IF /\ OrdreUsers[n] \in DOMAIN users
             /\ users[OrdreUsers[n]].role = "eleve"
             /\ users[OrdreUsers[n]].email # NoEmail
          THEN <<users[OrdreUsers[n]].email>>
          ELSE << >>)

\* Lines 548-560: the emails of the users the mail goes to.  'all' is every
\* student with an email, anything else is looked up as the email of one
\* user, who must have an email.
Destinataires(recipient) ==
    IF recipient = "all" THEN EmailsEleves(Len(OrdreUsers))
    ELSE IF FindUserByEmail(recipient) = NoDoc \/ FindUserByEmail(recipient).email = NoEmail
    THEN << >>
    ELSE <<FindUserByEmail(recipient).email>>

\* new EmailLog(...), lines 587-597 after Promise.all resolved (ok) and
\* lines 612-622 in the catch; sentAt is Date.now() at the construction.
LogEntry(adminEmail, recipient, tos, ok) ==
    [sentByEmail |-> adminEmail,
     recipientType |-> IF recipient = "all" THEN "all" ELSE "single",
     recipientCount |-> IF ok THEN Len(tos) ELSE 0,
     recipients |-> IF ok THEN tos ELSE << >>,
     status |-> IF ok THEN "success" ELSE "error", sentAt |-> now]

\* An answer of the route; the handler is done.
AnswerMail(h, status, reason) ==
    /\ ev' = Answer("mail", status, reason, FALSE)
    /\ hs' = [hs EXCEPT ![h] = Idle]

\* Lines 607-624: the catch builds the entry of a failure and saves it.  err
\* is what was thrown (a mail or a store call rejected), envoye whether the
\* mails had been handed to the transport.
Catch(h, admin, recipient, err, envoye) ==
    /\ hs' = [hs EXCEPT ![h] =
                [pc |-> "saveErr", admin |-> admin, recipient |-> recipient,
                 err |-> err, envoye |-> envoye,
                 entry |-> LogEntry(admin, recipient, << >>, FALSE)]]
    /\ ev' = ev

\* requireAdmin, lines 105-113: 401 without adminEmail, else User.findOne is
\* called.  subject tells whether subject and message are in the body,
\* recipient is 'all', an email or absent.
AdminSendEmail(h, adminEmail, subject, recipient) ==
    /\ rev = "avail"
    /\ hs[h].pc = "idle"
    /\ IF adminEmail = NoEmail
       THEN AnswerMail(h, 401, "emailRequis")
       ELSE /\ hs' = [hs EXCEPT ![h] =
                        [pc |-> "findAdmin", adminEmail |-> adminEmail,
                         subject |-> subject, recipient |-> recipient]]
            /\ ev' = ev
    /\ UNCHANGED <<rev, tz, users, moniteurs, reservations, nextId, probe, result, mails,
                   emailRateLimits, now, emailLogs>>

\* Lines 113-120 and 528-552: User.findOne of requireAdmin returns; 403
\* unless an administrator was found, 400 without subject or message, then
\* checkRateLimit and 429, or the query for the recipients is called.
SendFindAdmin(h) ==
    /\ rev = "avail"
    /\ hs[h].pc = "findAdmin"
    /\ LET admin == FindUserByEmail(ToLowerCase(hs[h].adminEmail))
           rc == checkRateLimit(emailRateLimits, admin.email, now)
       IN  IF ~EstAdmin(admin)
           THEN /\ AnswerMail(h, 403, "accesRefuse")
                /\ emailRateLimits' = emailRateLimits
           ELSE IF ~hs[h].subject
           THEN /\ AnswerMail(h, 400, "sujetRequis")
                /\ emailRateLimits' = emailRateLimits
           ELSE /\ emailRateLimits' = rc.limits
                /\ IF ~rc.allowed
                   THEN AnswerMail(h, 429, "limiteAtteinte")
                   ELSE /\ hs' = [hs EXCEPT ![h] =
                                    [pc |-> "findDest", admin |-> admin.email,
                                     recipient |-> hs[h].recipient]]
                        /\ ev' = ev
    /\ UNCHANGED <<rev, tz, users, moniteurs, reservations, nextId, probe, result, mails,
                   now, emailLogs>>

\* Lines 113 and 122-124: User.findOne of requireAdmin rejects; its catch
\* answers 500 and the route handler does not run.
SendFindAdminRejects(h) ==
    /\ rev = "avail"
    /\ hs[h].pc = "findAdmin"
    /\ AnswerMail(h, 500, "erreurVerification")
    /\ UNCHANGED <<rev, tz, users, moniteurs, reservations, nextId, probe, result, mails,
                   emailRateLimits, now, emailLogs>>

\* Lines 549-583: User.find or User.findOne returns; 404 when the one
\* recipient is no user with an email, 400 when there is no recipient, else
\* sendMail is called for each recipient and Promise.all awaited.
SendFindDest(h) ==
    /\ rev = "avail"
    /\ hs[h].pc = "findDest"
    /\ LET tos == Destinataires(hs[h].recipient)
       IN  IF tos = << >> /\ hs[h].recipient # "all"
           THEN /\ AnswerMail(h, 404, "nonTrouve")
                /\ mails' = mails
           ELSE IF tos = << >>
           THEN /\ AnswerMail(h, 400, "aucunDestinataire")
                /\ mails' = mails
           ELSE /\ mails' = SendMails(mails, tos)
                /\ hs' = [hs EXCEPT ![h] =
                            [pc |-> "sending", admin |-> hs[h].admin,
                             recipient |-> hs[h].recipient, tos |-> tos,
                             attente |-> tos]]
                /\ ev' = ev
    /\ UNCHANGED <<rev, tz, users, moniteurs, reservations, nextId, probe, result,
                   emailRateLimits, now, emailLogs>>

\* User.find or User.findOne of the handler rejects: the catch runs.
SendFindDestRejects(h) ==
    /\ rev = "avail"
    /\ hs[h].pc = "findDest"
    /\ Catch(h, hs[h].admin, hs[h].recipient, "store", FALSE)
    /\ UNCHANGED <<rev, tz, users, moniteurs, reservations, nextId, probe, result, mails,
                   emailRateLimits, now, emailLogs>>

\* Lines 583-598: the transport settles one mail of the request.  Promise.all
\* rejects with the first mail rejected, whatever the other mails do, and
\* resolves when every mail was accepted; the handler then builds its
\* EmailLog and calls save.
MessageSettles(h, to, ok) ==
    /\ rev = "avail"
    /\ hs[h].pc = "sending"
    /\ Occurrences(hs[h].attente, to) > 0
    /\ mails' = Settle(mails, to, ok)
    /\ IF ~ok
       THEN Catch(h, hs[h].admin, hs[h].recipient, "mail", TRUE)
       ELSE /\ ev' = ev
            /\ IF hs[h].attente = <<to>>
               THEN hs' = [hs EXCEPT ![h] =
                             [pc |-> "saveLog", admin |-> hs[h].admin,
                              recipient |-> hs[h].recipient,
                              entry |-> LogEntry(hs[h].admin, hs[h].recipient,
                                                 hs[h].tos, TRUE)]]
               ELSE hs' = [hs EXCEPT ![h].attente = Retirer(@, to)]
    /\ UNCHANGED <<rev, tz, users, moniteurs, reservations, nextId, probe, result,
                   emailRateLimits, now, emailLogs>>

\* The mails to that email that handler h awaits.
Attendus(h, to) == IF hs[h].pc = "sending" THEN Occurrences(hs[h].attente, to) ELSE 0

\* The mails to that email that no handler awaits any more.
Orphelins(to) == Nombre(mails, to, "pending") - Attendus("h1", to) - Attendus("h2", to)

\* The transport settles a mail of a request whose Promise.all has rejected.
OrphanSettles(to, ok) ==
    /\ rev = "avail"
    /\ Orphelins(to) > 0
    /\ mails' = Settle(mails, to, ok)
    /\ UNCHANGED <<rev, tz, users, moniteurs, reservations, nextId, hs, ev, probe, result,
                   emailRateLimits, now, emailLogs>>

\* Lines 598-606: emailLog.save() returns; 200.
SendSaveLog(h) ==
    /\ rev = "avail"
    /\ hs[h].pc = "saveLog"
    /\ emailLogs' = Append(emailLogs, hs[h].entry)
    /\ AnswerMail(h, 200, "envoye")
    /\ UNCHANGED <<rev, tz, users, moniteurs, reservations, nextId, probe, result, mails,
                   emailRateLimits, now>>

\* emailLog.save() rejects: the catch runs, the mails being sent.
SendSaveLogRejects(h) ==
    /\ rev = "avail"
    /\ hs[h].pc = "saveLog"
    /\ Catch(h, hs[h].admin, hs[h].recipient, "store", TRUE)
    /\ UNCHANGED <<rev, tz, users, moniteurs, reservations, nextId, probe, result, mails,
                   emailRateLimits, now, emailLogs>>

\* Lines 623-629: the save of the catch returns; 500.
SendSaveErr(h) ==
    /\ rev = "avail"
    /\ hs[h].pc = "saveErr"
    /\ emailLogs' = Append(emailLogs, hs[h].entry)
    /\ AnswerMail(h, 500, "erreurEnvoi")
    /\ UNCHANGED <<rev, tz, users, moniteurs, reservations, nextId, probe, result, mails,
                   emailRateLimits, now>>

\* Lines 624-629: the save of the catch rejects; the inner catch writes to
\* the console and 500 is answered.
SendSaveErrRejects(h) ==
    /\ rev = "avail"
    /\ hs[h].pc = "saveErr"
    /\ AnswerMail(h, 500, "erreurEnvoi")
    /\ UNCHANGED <<rev, tz, users, moniteurs, reservations, nextId, probe, result, mails,
                   emailRateLimits, now, emailLogs>>

\* Time passes.
Tick(t) ==
    /\ t > now
    /\ now' = t
    /\ UNCHANGED <<rev, tz, users, moniteurs, reservations, nextId, hs, ev, probe, result,
                   mails, emailRateLimits, emailLogs>>

\* The requests: <<adminEmail, subject, recipient>>.  Three are counted and
\* then find no recipient, so that the EmailLog collection does not grow
\* while the counters run up to the limit; three are turned away before the
\* count.  The requests that send are those of SpecQuota and SpecLog.
MailRequests ==
    { <<"a@x.fr", TRUE, "z@x.fr">>,
      <<"A@x.fr", TRUE, "z@x.fr">>,
      <<"b@x.fr", TRUE, "z@x.fr">>,
      <<"a@x.fr", FALSE, "all">>,
      <<"c@x.fr", TRUE, "all">>,
      <<NoEmail, TRUE, "all">> }

InitRate ==
    /\ rev = "avail"
    /\ tz = UTC
    /\ users = UsersRate
    /\ moniteurs = << >>
    /\ reservations = {}
    /\ nextId = 1
    /\ hs = [h \in Handlers |-> Idle]
    /\ ev = NoAnswer
    /\ probe = << >>
    /\ result = NoResult
    /\ mails = {}
    /\ emailRateLimits = << >>
    /\ now = 0
    /\ emailLogs = << >>

\* Handler h1 serves every request and h2 those of administrator a@x.fr,
\* which overlap with them; the clock moves at any time.  The store answers
\* every call here; its failures are those of SpecLog.
NextRate ==
    \/ \E req \in MailRequests : AdminSendEmail("h1", req[1], req[2], req[3])
    \/ AdminSendEmail("h2", "a@x.fr", TRUE, "z@x.fr")
    \/ \E h \in Handlers :
           \/ SendFindAdmin(h)
           \/ SendFindDest(h)
    \/ \E t \in Instants : Tick(t)

SpecRate == InitRate /\ [][NextRate]_vars

\* The email is that of a persisted administrator.
DeAdmin(email) ==
    /\ email # NoEmail
    /\ \E u \in DOMAIN users :
          users[u].email = ToLowerCase(email) /\ users[u].role = "admin"

\* The handler is about to run checkRateLimit: its request passed
\* requireAdmin and has a subject and a message.
Compte(h) ==
    /\ hs[h].pc = "findAdmin"
    /\ hs[h].subject
    /\ DeAdmin(hs[h].adminEmail)

\* The administrator's window is open: it exists and now is not after its
\* end.
FenetreOuverte(e) ==
    /\ e \in DOMAIN emailRateLimits
    /\ now <= emailRateLimits[e].resetTime

\* C17: the counter of an admin email counts the requests allowed in its
\* window, which opens with count 1 and ends one hour after the request that
\* opened it; it never exceeds 50.  A counted request inside the window is
\* denied (429, no mail, counter untouched) exactly when the count is 50, and
\* otherwise adds one to the count and keeps the window's end; a counted
\* request with no window or after its end is allowed and opens a window of
\* count 1 ending one hour later; no request changes the counter of another
\* email, and the counters change in no other step.
C17_RateLimit ==
    /\ [](\A e \in DOMAIN emailRateLimits :
             emailRateLimits[e].count \in 1..RATE_LIMIT)
    /\ [][emailRateLimits' # emailRateLimits
            => \E h \in Handlers : SendFindAdmin(h) /\ Compte(h)]_vars
    /\ [][\A h \in Handlers :
            SendFindAdmin(h) /\ Compte(h) =>
              LET e == ToLowerCase(hs[h].adminEmail)
              IN  /\ DOMAIN emailRateLimits' = DOMAIN emailRateLimits \cup {e}
                  /\ \A o \in DOMAIN emailRateLimits \ {e} :
                        emailRateLimits'[o] = emailRateLimits[o]
                  /\ IF FenetreOuverte(e)
                     THEN IF emailRateLimits[e].count = RATE_LIMIT
                          THEN /\ hs'[h].pc = "idle"
                               /\ ev'.status = 429
                               /\ mails' = mails
                               /\ emailLogs' = emailLogs
                               /\ emailRateLimits'[e] = emailRateLimits[e]
                          ELSE /\ hs'[h].pc = "findDest"
                               /\ emailRateLimits'[e].count =
                                      emailRateLimits[e].count + 1
                               /\ emailRateLimits'[e].resetTime =
                                      emailRateLimits[e].resetTime
                     ELSE /\ hs'[h].pc = "findDest"
                          /\ emailRateLimits'[e] =
                                 [count |-> 1, resetTime |-> now + RATE_WINDOW]
         ]_vars

\* An administrator is denied at the last millisecond of a window holding 50
\* allowed requests, while the other administrator's window, opened in that
\* millisecond, holds fewer.
C17_Witness ==
    /\ ev.status = 429
    /\ now = RATE_WINDOW
    /\ DOMAIN emailRateLimits = {"a@x.fr", "b@x.fr"}
    /\ emailRateLimits["a@x.fr"] = [count |-> RATE_LIMIT, resetTime |-> RATE_WINDOW]
    /\ emailRateLimits["b@x.fr"] = [count |-> 2, resetTime |-> 2 * RATE_WINDOW]

\* The User collection: an administrator, two students with an email and
\* one without.
UsersQuota ==
    [u \in {"u1", "u2", "u3", "u4"} |->
       CASE u = "u1" -> [role |-> "admin", email |-> "a@x.fr"]
         [] u = "u2" -> [role |-> "eleve", email |-> "c@x.fr"]
         [] u = "u3" -> [role |-> "eleve", email |-> "d@x.fr"]
         [] OTHER -> [role |-> "eleve", email |-> NoEmail]]

InitQuota ==
    /\ rev = "avail"
    /\ tz = UTC
    /\ users = UsersQuota
    /\ moniteurs = << >>
    /\ reservations = {}
    /\ nextId = 1
    /\ hs = [h \in Handlers |-> Idle]
    /\ ev = NoAnswer
    /\ probe = << >>
    /\ result = NoResult
    /\ mails = {}
    /\ emailRateLimits = << >>
    /\ now = 0
    /\ emailLogs = << >>

\* The administrator writes to all the students, again and again, one
\* request after the other; the transport accepts the mails, the store
\* answers every call (its failures are those of SpecLog) and the clock
\* moves at any time.
NextQuota ==
    \/ AdminSendEmail("h1", "a@x.fr", TRUE, "all")
    \/ SendFindAdmin("h1")
    \/ SendFindDest("h1")
    \/ \E to \in {"c@x.fr", "d@x.fr"} : MessageSettles("h1", to, TRUE)
    \/ SendSaveLog("h1")
    \/ \E t \in Instants : Tick(t)

SpecQuota == InitQuota /\ [][NextQuota]_vars

\* The requests of an audit: <<adminEmail, subject, recipient>>, from an
\* administrator, a student, an unknown email or nobody, to all the
\* students, to one, or with no recipient in the body.
LogRequests ==
    {NoEmail, "a@x.fr", "A@x.fr", "c@x.fr", "z@x.fr"} \X BOOLEAN
        \X {"all", "d@x.fr", NoEmail}

\* The requests the administrators had counted or that wait to be.
Engages ==
    Cardinality({h \in Handlers : hs[h].pc = "findAdmin"})
        + (IF "a@x.fr" \in DOMAIN emailRateLimits
           THEN emailRateLimits["a@x.fr"].count ELSE 0)

\* The store of SpecQuota with the email of the first student given to the
\* second one too: the schema has no unique index, and two POST /users that
\* overlap both pass the lookup of the email.
UsersDoubles == [UsersQuota EXCEPT !["u3"].email = "c@x.fr"]

\* One of the two stores, no request yet.
InitLog ==
    /\ rev = "avail"
    /\ tz = UTC
    /\ users \in {UsersQuota, UsersDoubles}
    /\ moniteurs = << >>
    /\ reservations = {}
    /\ nextId = 1
    /\ hs = [h \in Handlers |-> Idle]
    /\ ev = NoAnswer
    /\ probe = << >>
    /\ result = NoResult
    /\ mails = {}
    /\ emailRateLimits = << >>
    /\ now = 0
    /\ emailLogs = << >>

\* The requests of two handlers interleave at their store calls and at the
\* answers of the transport, which accepts or rejects each mail; every
\* store call of requireAdmin and of the handler may reject.  New requests
\* are served while fewer than MaxLogs were counted.
NextLog ==
    \/ \E h \in Handlers, req \in LogRequests :
          /\ Engages < MaxLogs
          /\ AdminSendEmail(h, req[1], req[2], req[3])
    \/ \E h \in Handlers :
          \/ SendFindAdmin(h)
          \/ SendFindAdminRejects(h)
          \/ SendFindDest(h)
          \/ SendFindDestRejects(h)
          \/ SendSaveLog(h)
          \/ SendSaveLogRejects(h)
          \/ SendSaveErr(h)
          \/ SendSaveErrRejects(h)
          \/ \E to \in {"c@x.fr", "d@x.fr"}, ok \in BOOLEAN : MessageSettles(h, to, ok)
    \/ \E to \in {"c@x.fr", "d@x.fr"}, ok \in BOOLEAN : OrphanSettles(to, ok)

SpecLog == InitLog /\ [][NextLog]_vars

\* C27: a POST /admin/send-email that handed its mails to the transport
\* writes exactly one EmailLog entry before it answers: status 'success',
\* the recipients and their number, answer 200 when every mail was accepted;
\* status 'error', no recipient, count 0, answer 500 when a mail was
\* rejected.  Mails are handed over only when the recipients were read, one
\* for each recipient.
C27_OneLogEntry ==
    /\ [][Remis(mails') # Remis(mails)
            => \E h \in Handlers :
                  /\ SendFindDest(h)
                  /\ Remis(mails') = Remis(mails) + Len(hs'[h].tos)]_vars
    /\ [][\A h \in Handlers :
            (/\ hs[h].pc \in {"saveLog", "saveErr"}
             /\ hs'[h].pc = "idle"
             /\ hs[h].pc = "saveErr" => hs[h].envoye)
            => /\ Len(emailLogs') = Len(emailLogs) + 1
               /\ SubSeq(emailLogs', 1, Len(emailLogs)) = emailLogs
               /\ LET e == emailLogs'[Len(emailLogs')]
                  IN  /\ e.sentByEmail = hs[h].admin
                      /\ IF hs[h].pc = "saveErr" /\ hs[h].err = "mail"
                         THEN /\ e.status = "error"
                              /\ e.recipients = << >>
                              /\ e.recipientCount = 0
                              /\ ev'.status = 500
                         ELSE /\ e.status = "success"
                              /\ e.recipients # << >>
                              /\ e.recipientCount = Len(e.recipients)
                              /\ ev'.status = 200
         ]_vars

\* A request whose adminEmail is not that of a persisted administrator
\* leaves requireAdmin's lookup.
NonAdminLeaves(h) ==
    /\ hs[h].pc = "findAdmin"
    /\ hs'[h].pc # "findAdmin"
    /\ ~DeAdmin(hs[h].adminEmail)

\* The step answers and writes nothing.
RefusedWritesNothing(h) ==
    /\ hs'[h].pc = "idle"
    /\ mails' = mails
    /\ emailLogs' = emailLogs
    /\ emailRateLimits' = emailRateLimits

\* Every log entry, every counter and every request past requireAdmin
\* belongs to a persisted administrator.
OnlyAdmins ==
    /\ \A i \in DOMAIN emailLogs : DeAdmin(emailLogs[i].sentByEmail)
    /\ \A e \in DOMAIN emailRateLimits : DeAdmin(e)
    /\ \A h \in Handlers :
          hs[h].pc \in {"findDest", "sending", "saveLog", "saveErr"}
          => DeAdmin(hs[h].admin)

\* A request without adminEmail is answered 401 at once and writes nothing.
Missing401 ==
    \A h \in Handlers, req \in LogRequests :
       (AdminSendEmail(h, req[1], req[2], req[3]) /\ req[1] = NoEmail)
       => /\ ev'.status = 401
          /\ hs' = hs
          /\ mails' = mails
          /\ emailLogs' = emailLogs
          /\ emailRateLimits' = emailRateLimits

\* C28 as it is stated: a POST /admin/send-email whose adminEmail is not
\* the email of a persisted administrator sends no mail, writes no EmailLog
\* entry and leaves the rate-limit counters as they were; it is answered
\* 401 when the adminEmail is missing and 403 otherwise.
C28_Refused403 ==
    /\ []OnlyAdmins
    /\ [][Missing401]_vars
    /\ [][\A h \in Handlers :
            NonAdminLeaves(h) => (ev'.status = 403 /\ RefusedWritesNothing(h))]_vars

\* C28: a POST /admin/send-email whose adminEmail is not the email of a
\* persisted administrator sends no mail, writes no EmailLog entry and
\* leaves the rate-limit counters as they were; it is answered 401 when
\* the adminEmail is missing, 403 when the lookup of requireAdmin returns
\* and 500 when that lookup fails.  Every log entry, every counter and
\* every request past requireAdmin belongs to a persisted administrator.
C28_AdminOnly ==
    /\ []OnlyAdmins
    /\ [][Missing401]_vars
    /\ [][\A h \in Handlers :
            NonAdminLeaves(h)
            => /\ RefusedWritesNothing(h)
               /\ IF SendFindAdmin(h) THEN ev'.status = 403
                  ELSE SendFindAdminRejects(h) /\ ev'.status = 500]_vars

\* A student's request was answered 403 after an administrator's mail had
\* been sent and logged.
C28_Witness ==
    /\ ev = Answer("mail", 403, "accesRefuse", FALSE)
    /\ Len(emailLogs) = 1
    /\ emailLogs[1].status = "success"
    /\ DOMAIN emailRateLimits = {"a@x.fr"}
    /\ emailRateLimits["a@x.fr"].count = 1

\* The mails of the first n entries of the log that the admin had sent from
\* instant t on and less than one hour later.
RECURSIVE MailsDepuis(_, _, _)
MailsDepuis(adminEmail, t, n) ==
    IF n = 0 THEN 0
    ELSE MailsDepuis(adminEmail, t, n - 1) +
         (IF /\ emailLogs[n].sentByEmail = adminEmail
             /\ emailLogs[n].sentAt >= t
             /\ emailLogs[n].sentAt < t + RATE_WINDOW
          THEN emailLogs[n].recipientCount
          ELSE 0)

\* C26: the mails handed to the transport for one admin through
\* POST /admin/send-email within one hour, counted from any sending on, are
\* never more than 50.
C26_FiftyMailsPerHour ==
    \A i \in DOMAIN emailLogs :
       MailsDepuis(emailLogs[i].sentByEmail, emailLogs[i].sentAt, Len(emailLogs))
          <= RATE_LIMIT

-----------------------------------------------------------------------------
(* POST /users: src/unnamed/part_004 lines 215-248 (revision "avail", the  *)
(* email is optional) and src/server.js lines 118-135 (revision "tag", the *)
(* email is required).  The User collection is the list of the documents   *)
(* in the order of their creation.                                         *)

\* The emails of the request bodies; the comparison of the store is exact.
EmailsBody == {NoEmail, "a@x.fr", "A@x.fr", "b@x.fr"}

\* The document that new User(...) makes: email || null; the bodies that
\* have their required fields carry the password 'p'.
NewUser(email) == [role |-> "eleve", email |-> email, password |-> "p"]

\* app.post('/users') up to its first store call and that call's result.
\* complete tells whether the other required fields are in the body (nom,
\* prenom and role; in server.js password too).
PostUsers(h, complete, email) ==
    /\ rev \in {"avail", "tag"}
    /\ hs[h].pc = "idle"
    /\ Len(users) < MaxUsers
    /\ IF ~complete \/ (rev = "tag" /\ email = NoEmail)
       THEN /\ ev' = Answer("users", 400, "champsRequis", FALSE)
            /\ UNCHANGED <<users, hs>>
       ELSE IF email = NoEmail
       THEN /\ users' = Append(users, NewUser(email))
            /\ ev' = Answer("users", 201, "ajoute", FALSE)
            /\ UNCHANGED hs
       ELSE IF FindUserByEmail(email) # NoDoc
       THEN /\ ev' = Answer("users", 409, "emailUtilise", FALSE)
            /\ UNCHANGED <<users, hs>>
       ELSE /\ hs' = [hs EXCEPT ![h] = [pc |-> "saveUser", kind |-> "users",
                                        email |-> email]]
            /\ UNCHANGED <<users, ev>>
    /\ UNCHANGED <<rev, tz, moniteurs, reservations, nextId, probe, result, mails,
                   emailRateLimits, now, emailLogs>>

\* newUser.save() returns and 201 is answered.
SaveUser(h) ==
    /\ rev \in {"avail", "tag"}
    /\ hs[h].pc = "saveUser"
    /\ users' = Append(users, NewUser(hs[h].email))
    /\ ev' = Answer("users", 201, "ajoute", FALSE)
    /\ hs' = [hs EXCEPT ![h] = Idle]
    /\ UNCHANGED <<rev, tz, moniteurs, reservations, nextId, probe, result, mails,
                   emailRateLimits, now, emailLogs>>

InitUsers ==
    /\ rev \in {"avail", "tag"}
    /\ tz = UTC
    /\ users = << >>
    /\ moniteurs = << >>
    /\ reservations = {}
    /\ nextId = 1
    /\ hs = [h \in Handlers |-> Idle]
    /\ ev = NoAnswer
    /\ probe = << >>
    /\ result = NoResult
    /\ mails = {}
    /\ emailRateLimits = << >>
    /\ now = 0
    /\ emailLogs = << >>

\* The requests are served one after the other: one handler runs.
NextUsers ==
    \/ \E complete \in BOOLEAN, email \in EmailsBody : PostUsers("h1", complete, email)
    \/ SaveUser("h1")

SpecUsers == InitUsers /\ [][NextUsers]_vars

\* User.findOne({ email, password }): a document, or NoDoc.
FindUserByLogin(email, password) ==
    IF \E i \in DOMAIN users : users[i].email = email /\ users[i].password = password
    THEN users[CHOOSE i \in DOMAIN users :
                  users[i].email = email /\ users[i].password = password]
    ELSE NoDoc

\* app.post('/login'), part_004 lines 175-195: the email is lower-cased and
\* looked up with the password; the answer carries the user's email.
PostLogin(email, password) ==
    /\ rev = "avail"
    /\ hs["h1"].pc = "idle"
    /\ ev' = IF email = NoEmail \/ password = ""
             THEN Answer("login", 400, "requis", FALSE)
             ELSE IF FindUserByLogin(ToLowerCase(email), password) = NoDoc
             THEN Answer("login", 401, "incorrect", FALSE)
             ELSE Answer("login", 200,
                         FindUserByLogin(ToLowerCase(email), password).email, FALSE)
    /\ UNCHANGED <<rev, tz, users, moniteurs, reservations, nextId, hs, probe, result, mails,
                   emailRateLimits, now, emailLogs>>

\* Users are created and log in, one request after the other.
NextLogin ==
    \/ \E complete \in BOOLEAN, email \in EmailsBody : PostUsers("h1", complete, email)
    \/ SaveUser("h1")
    \/ \E email \in EmailsBody, password \in {"", "p", "q"} : PostLogin(email, password)

SpecLogin == InitUsers /\ [][NextLogin]_vars

\* C29: a POST /login with the email and the password of a user that
\* POST /users created is answered 200 with that user's profile.
C29_CreatedCanLogin ==
    [][\A email \in EmailsBody \ {NoEmail} :
         (/\ PostLogin(email, "p")
          /\ \E i \in DOMAIN users : users[i].email = email /\ users[i].password = "p")
         => /\ ev'.status = 200
            /\ ev'.reason = email
      ]_vars

\* C18: with the POST /users requests served one after the other, no two
\* persisted users have the same non-empty email, and a request that has
\* its other required fields and the email of an existing user is answered
\* 409 and creates no user.
C18_UniqueEmail ==
    /\ [](\A i, j \in DOMAIN users :
             (users[i].email = users[j].email /\ users[i].email # NoEmail) => i = j)
    /\ [][\A email \in EmailsBody \ {NoEmail} :
             (/\ PostUsers("h1", TRUE, email)
              /\ \E i \in DOMAIN users : users[i].email = email)
             => /\ ev' = Answer("users", 409, "emailUtilise", FALSE)
                /\ users' = users
                /\ hs'["h1"] = Idle
         ]_vars

\* A request with the email of an existing user was answered 409, next to a
\* user whose email differs only by case.
C18_Witness ==
    /\ ev = Answer("users", 409, "emailUtilise", FALSE)
    /\ Len(users) = 2
    /\ {users[1].email, users[2].email} = {"a@x.fr", "A@x.fr"}

-----------------------------------------------------------------------------
(* Revision "mem": src/unnamed/part_003.  The reservations are objects of  *)
(* an array of the process and the handlers are synchronous, so each       *)
(* request is one step.  The handlers find a reservation by its id, which  *)
(* nextId++ never gives twice, so the array is modelled as a set.          *)

\* The body has no status field.
NoStatus == "undefined"

Statuts == {"demande_en_cours", "confirme", "refuse"}

\* The status of the request bodies.
StatusBody == {NoStatus, "annule"} \cup Statuts

SlotsMem == {Iso(0, 8, 0, 0), Iso(0, 9, 0, 0)}

\* The :id of the paths.
IdsParam == {"1", "2", "1abc", "abc", "9"}

\* parseInt(id): the leading digits, NaN without any.
ParseInt(id) ==
    CASE id = "1" -> 1
      [] id = "2" -> 2
      [] id = "1abc" -> 1
      [] id = "9" -> 9
      [] OTHER -> NaN

\* reservations.find(r => r.id === parseInt(id)), as a set.
MemFind(id) == {r \in reservations : r.id = ParseInt(id)}

\* A plausible slip: the status is not looked at.
ToujoursAnnulable(r) == TRUE

\* Line 96: the handler goes on to splice unless status === 'confirme'.
Annulable(r) == r.status # "confirme"

\* A plausible slip: any status is taken.
StatutQuelconque(status) == TRUE

\* Line 114: the array of the three status values includes the status.
StatutValide(status) == status \in Statuts

\* app.post('/reservations'), lines 45-79.  complete tells whether slot,
\* nom, prenom, email and tel are all in the body.
MemPostReservations(slot, complete, status) ==
    /\ rev = "mem"
    /\ Room
    /\ IF ~complete
       THEN /\ ev' = Answer("post", 400, "champsRequis", FALSE)
            /\ UNCHANGED <<reservations, nextId>>
       ELSE IF \E r \in reservations : r.slot = slot
       THEN /\ ev' = Answer("post", 409, "creneauReserve", FALSE)
            /\ UNCHANGED <<reservations, nextId>>
       ELSE /\ reservations' = reservations \cup
                  {[id |-> nextId, slot |-> slot, email |-> "a@x.fr",
                    status |-> IF status = NoStatus THEN "demande_en_cours" ELSE status,
                    createdAt |-> now, updatedAt |-> {}]}
            /\ nextId' = nextId + 1
            /\ ev' = Answer("post", 201, "creee", FALSE)
    /\ UNCHANGED <<rev, tz, users, moniteurs, hs, probe, result, mails, emailRateLimits, now, emailLogs>>

\* app.delete('/reservations/:id'), lines 84-106.
MemDeleteReservation(id) ==
    /\ rev = "mem"
    /\ IF MemFind(id) = {}
       THEN /\ ev' = Answer("delete", 404, "nonTrouvee", FALSE)
            /\ UNCHANGED reservations
       ELSE IF \E r \in MemFind(id) : ~Annulable(r)
       THEN /\ ev' = Answer("delete", 400, "confirmee", FALSE)
            /\ UNCHANGED reservations
       ELSE /\ reservations' = reservations \ MemFind(id)
            /\ ev' = Answer("delete", 200, "annulee", FALSE)
    /\ UNCHANGED <<rev, tz, users, moniteurs, nextId, hs, probe, result, mails,
                   emailRateLimits, now, emailLogs>>

\* app.put('/reservations/:id/status'), lines 109-134.
MemPutStatus(id, status) ==
    /\ rev = "mem"
    /\ IF ~StatutValide(status)
       THEN /\ ev' = Answer("put", 400, "statutInvalide", FALSE)
            /\ UNCHANGED reservations
       ELSE IF MemFind(id) = {}
       THEN /\ ev' = Answer("put", 404, "nonTrouvee", FALSE)
            /\ UNCHANGED reservations
       ELSE /\ reservations' = (reservations \ MemFind(id)) \cup
                  {[r EXCEPT !.status = status, !.updatedAt = {now}] : r \in MemFind(id)}
            /\ ev' = Answer("put", 200, "miseAJour", FALSE)
    /\ UNCHANGED <<rev, tz, users, moniteurs, nextId, hs, probe, result, mails,
                   emailRateLimits, now, emailLogs>>

InitMem ==
    /\ rev = "mem"
    /\ tz = UTC
    /\ users = << >>
    /\ moniteurs = << >>
    /\ reservations = {}
    /\ nextId = 1
    /\ hs = [h \in Handlers |-> Idle]
    /\ ev = NoAnswer
    /\ probe = << >>
    /\ result = NoResult
    /\ mails = {}
    /\ emailRateLimits = << >>
    /\ now = 0
    /\ emailLogs = << >>

NextMem ==
    \/ \E slot \in SlotsMem, complete \in BOOLEAN, status \in StatusBody :
           MemPostReservations(slot, complete, status)
    \/ \E id \in IdsParam : MemDeleteReservation(id)
    \/ \E id \in IdsParam, status \in StatusBody : MemPutStatus(id, status)
    \/ \E t \in Instants : Tick(t)

SpecMem == InitMem /\ [][NextMem]_vars

\* C19: in the in-memory revision, DELETE /reservations/:id is answered 404
\* and removes nothing when no reservation has the id, is answered 400 and
\* removes nothing when the reservation's status is 'confirme', and
\* otherwise removes that reservation and no other; no step removes a
\* reservation whose status is 'confirme'.
C19_ConfirmedStays ==
    [][ /\ \A id \in IdsParam :
             MemDeleteReservation(id) =>
                IF \A r \in reservations : r.id # ParseInt(id)
                THEN ev' = Answer("delete", 404, "nonTrouvee", FALSE)
                     /\ reservations' = reservations
                ELSE IF \E r \in reservations : r.id = ParseInt(id) /\ r.status = "confirme"
                THEN ev' = Answer("delete", 400, "confirmee", FALSE)
                     /\ reservations' = reservations
                ELSE ev'.status = 200
                     /\ reservations' = {r \in reservations : r.id # ParseInt(id)}
        /\ \A r \in reservations :
             (rev = "mem" /\ \A q \in reservations' : q.id # r.id) => r.status # "confirme"
      ]_vars

\* DELETE of a confirmed reservation was answered 400 and the reservation
\* is in the store.
C19_Witness ==
    /\ rev = "mem"
    /\ ev = Answer("delete", 400, "confirmee", FALSE)
    /\ \E r \in reservations : r.status = "confirme" /\ r.updatedAt # {}

\* Two reservations are the same but for status and updatedAt.
SaufStatut(r, q) ==
    /\ q.id = r.id
    /\ q.slot = r.slot
    /\ q.email = r.email
    /\ q.createdAt = r.createdAt

\* C20: in the in-memory revision, PUT /reservations/:id/status is answered
\* 400 for a status outside {demande_en_cours, confirme, refuse} (a missing
\* one included) and, the status being valid, 404 for an id that no
\* reservation has, changing no reservation in either case; with a valid
\* status and a known id it is answered 200, gives that reservation the
\* status and the current time as updatedAt, and changes nothing else.
C20_PutStatus ==
    [][\A id \in IdsParam, status \in StatusBody :
         MemPutStatus(id, status) =>
            IF status \notin {"demande_en_cours", "confirme", "refuse"}
            THEN ev'.status = 400 /\ reservations' = reservations
            ELSE IF \A r \in reservations : r.id # ParseInt(id)
            THEN ev'.status = 404 /\ reservations' = reservations
            ELSE /\ ev'.status = 200
                 /\ \A r \in reservations :
                       IF r.id = ParseInt(id)
                       THEN \E q \in reservations' :
                               /\ SaufStatut(r, q)
                               /\ q.status = status
                               /\ q.updatedAt = {now}
                       ELSE r \in reservations'
                 /\ Cardinality(reservations') = Cardinality(reservations)
      ]_vars

\* A PUT refused the older of two reservations an hour after it was made,
\* and the other one is as it was created.
C20_Witness ==
    /\ rev = "mem"
    /\ ev = Answer("put", 200, "miseAJour", FALSE)
    /\ now = RATE_WINDOW
    /\ \E r, q \in reservations :
          /\ r.id = 1 /\ r.status = "refuse" /\ r.createdAt = 0 /\ r.updatedAt = {now}
          /\ q.id = 2 /\ q.status = "demande_en_cours" /\ q.updatedAt = {}

\* C21: in the in-memory revision, the status of every persisted
\* reservation is one of demande_en_cours, confirme and refuse.
C21_StatusEnumerated ==
    rev = "mem" => \A r \in reservations : r.status \in Statuts

-----------------------------------------------------------------------------
(* Revision "auto": src/unnamed/part_000, lines 378-696.  A request that   *)
(* names no instructor is given the first free one.                        *)

\* Monday 08:00 UTC in two spellings.
SlotsAuto == {Iso(0, 8, 0, 0), Iso(0, 9, 0, 1)}

\* The order in which User.find lists the documents (insertion order):
\* the three documents of the initial store, then those that POST /users
\* adds.
UserOrder == <<"u1", "u2", "u3", "u4", "u5", "u6", "u7">>

\* Two instructors and a student; the student has an email.
UsersAuto ==
    [u \in {"u1", "u2", "u3"} |->
       [role |-> IF u = "u3" THEN "eleve" ELSE "moniteur", disponibilites |-> EmptyDispo,
        email |-> IF u = "u3" THEN "a@x.fr" ELSE NoEmail]]

InitAuto ==
    /\ rev = "auto"
    /\ tz = UTC
    /\ users = UsersAuto
    /\ moniteurs = << >>
    /\ reservations = {}
    /\ nextId = 1
    /\ hs = [h \in Handlers |-> Idle]
    /\ ev = NoAnswer
    /\ probe = << >>
    /\ result = NoResult
    /\ mails = {}
    /\ emailRateLimits = << >>
    /\ now = 0
    /\ emailLogs = << >>

\* User.find({ role: 'moniteur' }): the ids of the documents listed.
AllMoniteurs == {u \in DOMAIN users : users[u].role = "moniteur"}

\* A plausible slip: every instructor listed counts as free.
GetAvailableTous(allMoniteurs, slotISO) == allMoniteurs

\* getAvailableMoniteurs, lines 526-528: of the instructors listed, those
\* that no reservation of the slot references.
getAvailableMoniteurs(allMoniteurs, slotISO) ==
    {m \in allMoniteurs : ~\E r \in reservations : r.slot = slotISO /\ r.moniteur = m}

\* A plausible slip: the last of them is taken.
Dernier(available) ==
    UserOrder[CHOOSE i \in 1..Len(UserOrder) :
                /\ UserOrder[i] \in available
                /\ \A j \in (i + 1)..Len(UserOrder) : UserOrder[j] \notin available]

\* availableMoniteurs[0]: the first of them in the order of the listing.
Premier(available) ==
    UserOrder[CHOOSE i \in 1..Len(UserOrder) :
                /\ UserOrder[i] \in available
                /\ \A j \in 1..(i - 1) : UserOrder[j] \notin available]

\* app.post('/reservations'), lines 564-576 and 525: the slot checks, and
\* User.find returns the instructors.
AutoPostReservations(h, slot, email, mid) ==
    LET ans(status, reason) == Answer("post", status, reason, FALSE)
    IN  /\ rev = "auto"
        /\ hs[h].pc = "idle"
        /\ IF slot = NoSlot THEN Reject(h, ans(400, "slotRequis"))
           ELSE IF ParseDate(slot) = NaN THEN Reject(h, ans(400, "slotInvalide"))
           ELSE /\ Room
                /\ hs' = [hs EXCEPT ![h] =
                            [pc |-> "lire", kind |-> "post",
                             dateSlot |-> ParseDate(slot), email |-> email, mid |-> mid,
                             allMoniteurs |-> AllMoniteurs]]
                /\ UNCHANGED <<rev, tz, users, moniteurs, reservations, nextId, ev, probe, result, mails, emailRateLimits, now, emailLogs>>

\* Lines 526-587: Reservation.find returns the reservations of the slot;
\* the instructor is chosen, or the request is refused.
AutoChoisir(h) ==
    LET available == getAvailableMoniteurs(hs[h].allMoniteurs, ToISOString(hs[h].dateSlot))
    IN  /\ rev = "auto"
        /\ hs[h].pc = "lire"
        /\ IF hs[h].mid = NoId
           THEN IF available = {}
                THEN Reject(h, Answer("post", 409, "aucunMoniteur", FALSE))
                ELSE /\ hs' = [hs EXCEPT ![h].pc = "save", ![h].mid = Premier(available)]
                     /\ UNCHANGED <<rev, tz, users, moniteurs, reservations, nextId, ev, probe, result, mails, emailRateLimits, now, emailLogs>>
           ELSE IF hs[h].mid \notin available
                THEN Reject(h, Answer("post", 409, "moniteurIndisponible", FALSE))
                ELSE /\ hs' = [hs EXCEPT ![h].pc = "save"]
                     /\ UNCHANGED <<rev, tz, users, moniteurs, reservations, nextId, ev, probe, result, mails, emailRateLimits, now, emailLogs>>

\* Lines 589-597: newReservation.save() returns; with an email the
\* instructor is read for the mail, without one 201 is answered.
AutoSave(h) ==
    /\ rev = "auto"
    /\ hs[h].pc = "save"
    /\ reservations' = reservations \cup
            {NewReservation(nextId, ToISOString(hs[h].dateSlot), hs[h].email, hs[h].mid,
                            "post", 0, EmptyDispo)}
    /\ nextId' = nextId + 1
    /\ IF hs[h].email # NoEmail
       THEN /\ hs' = [hs EXCEPT ![h] = [pc |-> "mail", kind |-> "post", rid |-> nextId]]
            /\ UNCHANGED ev
       ELSE /\ hs' = [hs EXCEPT ![h] = Idle]
            /\ ev' = Answer("post", 201, "creee", FALSE)
    /\ UNCHANGED <<rev, tz, users, moniteurs, probe, result, mails, emailRateLimits, now, emailLogs>>

\* Lines 597-608: User.findById returns (the instructor or null); the mail
\* is handed to the transport and 201 is answered.
AutoMail(h) ==
    /\ rev = "auto"
    /\ hs[h].pc = "mail"
    /\ mails' = mails \cup {Mail(hs[h].rid, "confirmation")}
    /\ ev' = Answer("post", 201, "creee", FALSE)
    /\ hs' = [hs EXCEPT ![h] = Idle]
    /\ UNCHANGED <<rev, tz, users, moniteurs, reservations, nextId, probe, result, emailRateLimits, now, emailLogs>>

\* app.post('/admin/reservations'), lines 668-677: the field checks and
\* the instructor's conflict query.
AutoAdminReservations(h, slot, email, mid) ==
    LET ans(status, reason) == Answer("admin", status, reason, FALSE)
    IN  /\ rev = "auto"
        /\ hs[h].pc = "idle"
        /\ IF slot = NoSlot \/ mid = NoId THEN Reject(h, ans(400, "requis"))
           ELSE IF ParseDate(slot) = NaN THEN Reject(h, ans(400, "slotInvalide"))
           ELSE IF MoniteurDejaReserve(ToISOString(ParseDate(slot)), mid)
           THEN Reject(h, ans(409, "moniteurReserve"))
           ELSE /\ Room
                /\ hs' = [hs EXCEPT ![h] =
                            [pc |-> "adminSave", kind |-> "admin",
                             dateSlot |-> ParseDate(slot), email |-> email, mid |-> mid]]
                /\ UNCHANGED <<rev, tz, users, moniteurs, reservations, nextId, ev, probe, result, mails, emailRateLimits, now, emailLogs>>

\* Lines 679-682: newReservation.save() returns; 201.
AutoAdminSave(h) ==
    /\ rev = "auto"
    /\ hs[h].pc = "adminSave"
    /\ reservations' = reservations \cup
            {NewReservation(nextId, ToISOString(hs[h].dateSlot), hs[h].email, hs[h].mid,
                            "admin", 0, EmptyDispo)}
    /\ nextId' = nextId + 1
    /\ ev' = Answer("admin", 201, "creee", FALSE)
    /\ hs' = [hs EXCEPT ![h] = Idle]
    /\ UNCHANGED <<rev, tz, users, moniteurs, probe, result, mails, emailRateLimits, now, emailLogs>>

\* The _id of the next User document: ObjectIds are not reused, and the
\* documents that POST /users adds are never deleted here.
NewUserId ==
    UserOrder[CHOOSE i \in 4..Len(UserOrder) :
                /\ UserOrder[i] \notin DOMAIN users
                /\ \A j \in 4..(i - 1) : UserOrder[j] \in DOMAIN users]

\* new User({ ..., email: email || null, role, ... }), line 493.
AutoNewUser(email, role) == [role |-> role, disponibilites |-> EmptyDispo, email |-> email]

\* users.set(_id, doc): the store with one more document.
AutoInsertUser(doc) ==
    [u \in DOMAIN users \cup {NewUserId} |-> IF u = NewUserId THEN doc ELSE users[u]]

\* app.post('/users'), lines 485-493: the field check, then
\* User.findOne({ email }) returns when the body has an email, and
\* newUser.save() when it has none.  complete tells whether nom, prenom and
\* role are in the body.
AutoPostUsers(h, complete, email, role) ==
    LET ans(status, reason) == Answer("users", status, reason, FALSE)
    IN  /\ rev = "auto"
        /\ hs[h].pc = "idle"
        /\ Cardinality(DOMAIN users) < MaxUsers
        /\ IF ~complete THEN Reject(h, ans(400, "champsRequis"))
           ELSE IF email = NoEmail
           THEN /\ users' = AutoInsertUser(AutoNewUser(email, role))
                /\ ev' = ans(201, "ajoute")
                /\ UNCHANGED <<rev, tz, moniteurs, reservations, nextId, hs, probe, result, mails, emailRateLimits, now, emailLogs>>
           ELSE IF \E u \in DOMAIN users : users[u].email = email
           THEN Reject(h, ans(409, "emailUtilise"))
           ELSE /\ hs' = [hs EXCEPT ![h] = [pc |-> "saveUser", kind |-> "users",
                                            email |-> email, role |-> role]]
                /\ UNCHANGED <<rev, tz, users, moniteurs, reservations, nextId, ev, probe, result, mails, emailRateLimits, now, emailLogs>>

\* Lines 494-496: newUser.save() returns; 201.
AutoSaveUser(h) ==
    /\ rev = "auto"
    /\ hs[h].pc = "saveUser"
    /\ users' = AutoInsertUser(AutoNewUser(hs[h].email, hs[h].role))
    /\ ev' = Answer("users", 201, "ajoute", FALSE)
    /\ hs' = [hs EXCEPT ![h] = Idle]
    /\ UNCHANGED <<rev, tz, moniteurs, reservations, nextId, probe, result, mails, emailRateLimits, now, emailLogs>>

\* app.delete('/users/:id'), lines 502-508: User.findById returns.
AutoDeleteUser(h, id) ==
    /\ rev = "auto"
    /\ hs[h].pc = "idle"
    /\ IF id \notin DOMAIN users
       THEN Reject(h, Answer("deleteUser", 404, "nonTrouve", FALSE))
       ELSE /\ hs' = [hs EXCEPT ![h] =
                       [pc |-> IF users[id].role = "moniteur" THEN "detach" ELSE "deleteUser",
                        kind |-> "deleteUser", uid |-> id]]
            /\ UNCHANGED <<rev, tz, users, moniteurs, reservations, nextId, ev, probe, result, mails, emailRateLimits, now, emailLogs>>

\* A plausible slip: the instructor's reservations are deleted with him.
AutoDetachSupprime(h) ==
    /\ rev = "auto"
    /\ hs[h].pc = "detach"
    /\ reservations' = {r \in reservations : r.moniteur # hs[h].uid}
    /\ hs' = [hs EXCEPT ![h].pc = "deleteUser"]
    /\ UNCHANGED <<rev, tz, users, moniteurs, nextId, ev, probe, result, mails, emailRateLimits, now, emailLogs>>

\* Line 509: Reservation.updateMany detaches the instructor's reservations.
AutoDetach(h) ==
    /\ rev = "auto"
    /\ hs[h].pc = "detach"
    /\ reservations' = {IF r.moniteur = hs[h].uid THEN [r EXCEPT !.moniteur = NoId] ELSE r :
                          r \in reservations}
    /\ hs' = [hs EXCEPT ![h].pc = "deleteUser"]
    /\ UNCHANGED <<rev, tz, users, moniteurs, nextId, ev, probe, result, mails, emailRateLimits, now, emailLogs>>

\* Lines 512-513: User.deleteOne returns; 200.
AutoDeleteUserOne(h) ==
    /\ rev = "auto"
    /\ hs[h].pc = "deleteUser"
    /\ users' = [u \in DOMAIN users \ {hs[h].uid} |-> users[u]]
    /\ ev' = Answer("deleteUser", 200, "supprime", FALSE)
    /\ hs' = [hs EXCEPT ![h] = Idle]
    /\ UNCHANGED <<rev, tz, moniteurs, reservations, nextId, probe, result, mails, emailRateLimits, now, emailLogs>>

\* app.delete('/reservations/:id'), lines 615-619: findById returns.
AutoDeleteReservation(h, id) ==
    /\ rev = "auto"
    /\ hs[h].pc = "idle"
    /\ IF \E r \in reservations : r.id = id
       THEN /\ hs' = [hs EXCEPT ![h] = [pc |-> "deleteOne", kind |-> "delete", rid |-> id,
                                             mail |-> AvecEmail(id)]]
            /\ UNCHANGED <<rev, tz, users, moniteurs, reservations, nextId, ev, probe, result, mails, emailRateLimits, now, emailLogs>>
       ELSE Reject(h, Answer("delete", 404, "nonTrouvee", FALSE))

\* Lines 621-636: deleteOne returns; mail and answer 200.
AutoDeleteOne(h) ==
    /\ rev = "auto"
    /\ hs[h].pc = "deleteOne"
    /\ reservations' = {r \in reservations : r.id # hs[h].rid}
    /\ mails' = IF hs[h].mail THEN Envoyer(mails, hs[h].rid, "annulation") ELSE mails
    /\ ev' = Answer("delete", 200, "annulee", FALSE)
    /\ hs' = [hs EXCEPT ![h] = Idle]
    /\ UNCHANGED <<rev, tz, users, moniteurs, nextId, probe, result, emailRateLimits, now, emailLogs>>

\* The first handler serves the requests on the reservations and POST
\* /users; the second one serves DELETE /users/:id and a POST /reservations
\* that names no instructor, so that each of them overlaps with a request
\* of the first.  The cancellations are served one at a time here; two of
\* them overlap under SpecAvail.
NextAuto ==
    \/ \E slot \in SlotsAuto, email \in {"a@x.fr", NoEmail}, mid \in {NoId, "u1"} :
           AutoPostReservations("h1", slot, email, mid)
    \/ AutoAdminReservations("h1", Iso(0, 9, 0, 1), NoEmail, "u2")
    \/ AutoPostReservations("h2", Iso(0, 8, 0, 0), NoEmail, NoId)
    \/ \E h \in Handlers :
           \/ AutoChoisir(h)
           \/ AutoSave(h)
           \/ AutoMail(h)
           \/ AutoAdminSave(h)
           \/ AutoDetach(h)
           \/ AutoDeleteUserOne(h)
           \/ AutoDeleteOne(h)
    \/ \E id \in {"u1", "u2", "u3"} : AutoDeleteUser("h2", id)
    \/ \E id \in 1..MaxRes : AutoDeleteReservation("h1", id)
    \/ \E complete \in BOOLEAN, email \in {NoEmail, "a@x.fr"} :
           AutoPostUsers("h1", complete, email, "moniteur")
    \/ AutoSaveUser("h1")

SpecAuto == InitAuto /\ [][NextAuto]_vars

\* The store call that a POST /reservations awaits rejects (the connection
\* to the store is lost): the catch of lines 609-611 answers 500.  The call
\* awaited at "lire" is Reservation.find, at "save" newReservation.save(),
\* which then persists nothing, and at "mail" User.findById, made after the
\* save.
StoreCallRejects(h) ==
    /\ rev = "auto"
    /\ hs[h].pc \in {"lire", "save", "mail"}
    /\ hs[h].kind = "post"
    /\ ev' = Answer("post", 500, "erreurServeur", FALSE)
    /\ hs' = [hs EXCEPT ![h] = Idle]
    /\ UNCHANGED <<rev, tz, users, moniteurs, reservations, nextId, probe, result, mails,
                   emailRateLimits, now, emailLogs>>

\* The requests are served one after the other, and any store call of a
\* POST /reservations may fail.
NextFault ==
    \/ \E slot \in SlotsAuto, email \in {"a@x.fr", NoEmail}, mid \in {NoId, "u1"} :
           AutoPostReservations("h1", slot, email, mid)
    \/ AutoChoisir("h1")
    \/ AutoSave("h1")
    \/ AutoMail("h1")
    \/ StoreCallRejects("h1")
    \/ \E id \in 1..MaxRes : AutoDeleteReservation("h1", id)
    \/ AutoDeleteOne("h1")

SpecFault == InitAuto /\ [][NextFault]_vars

\* C24: in the auto-assignment program, the step that answers a
\* POST /reservations with a status other than 201 leaves the store as it
\* was, and the store holds no reservation that the request saved.
C24_RejectedPersistsNothing ==
    [][\A h \in Handlers :
         (/\ rev = "auto"
          /\ hs[h].pc \in {"lire", "save", "mail"}
          /\ hs[h].kind = "post"
          /\ hs'[h].pc = "idle"
          /\ ev'.status # 201)
         => /\ reservations' = reservations
            /\ hs[h].pc = "mail" => \A r \in reservations' : r.id # hs[h].rid
      ]_vars

\* Instructor m has a reservation at the slot.
Booked(m, slotISO) == \E r \in reservations : r.slot = slotISO /\ r.moniteur = m

\* Every instructor of the directory has one, or there is no instructor.
AucunLibre(slotISO) == \A m \in AllMoniteurs : Booked(m, slotISO)

\* C10: in the auto-assignment revision, when a POST /reservations that
\* names no instructor has its instructor chosen while every instructor of
\* the directory it listed has a reservation at its slot, or the
\* directory holds no instructor, it is answered 409 and nothing is
\* written.
C10_NoInstructorAvailable ==
    [][\A h \in Handlers :
          (/\ rev = "auto"
           /\ hs[h].pc = "lire"
           /\ hs'[h].pc # "lire"
           /\ hs[h].mid = NoId
           /\ hs[h].allMoniteurs = AllMoniteurs
           /\ AucunLibre(ToISOString(hs[h].dateSlot)))
          => (/\ ev' = Answer("post", 409, "aucunMoniteur", FALSE)
              /\ hs'[h] = Idle
              /\ reservations' = reservations
              /\ users' = users)]_vars

C10_Witness ==
    /\ rev = "auto"
    /\ ev = Answer("post", 409, "aucunMoniteur", FALSE)
    /\ AllMoniteurs # {}
    /\ reservations # {}
    /\ \E r \in reservations : AucunLibre(r.slot)
    /\ \A h \in Handlers : hs[h].pc = "idle"

\* m is the first instructor, in the order of the listing, without a
\* reservation at the slot.
PremierLibre(m, slotISO) ==
    \E i \in 1..Len(UserOrder) :
        /\ UserOrder[i] = m
        /\ m \in AllMoniteurs
        /\ ~Booked(m, slotISO)
        /\ \A j \in 1..(i - 1) : UserOrder[j] \in AllMoniteurs => Booked(UserOrder[j], slotISO)

\* C11: in the auto-assignment revision, a POST /reservations that names
\* no instructor and whose instructor is chosen while some instructor of
\* the directory it listed is free at its slot goes on to save, with the
\* first free instructor in the order of the listing; the reservation it
\* saves is for that instructor and the canonical slot.
C11_FirstFreeInstructor ==
    [][\A h \in Handlers :
          /\ (/\ rev = "auto"
              /\ hs[h].pc = "lire"
              /\ hs'[h].pc # "lire"
              /\ hs[h].mid = NoId
              /\ hs[h].allMoniteurs = AllMoniteurs
              /\ ~AucunLibre(ToISOString(hs[h].dateSlot)))
             => (/\ hs'[h].pc = "save"
                 /\ PremierLibre(hs'[h].mid, ToISOString(hs[h].dateSlot))
                 /\ hs'[h].dateSlot = hs[h].dateSlot)
          /\ (rev = "auto" /\ hs[h].pc = "save" /\ hs'[h].pc # "save")
             => reservations' = reservations \cup
                    {NewReservation(nextId, ToISOString(hs[h].dateSlot), hs[h].email,
                                    hs[h].mid, "post", 0, EmptyDispo)}]_vars

C11_Witness ==
    /\ rev = "auto"
    /\ ev = Answer("post", 201, "creee", FALSE)
    /\ users = UsersAuto
    /\ \E a, b \in reservations :
          /\ a.id < b.id
          /\ a.slot = b.slot
          /\ a.moniteur = "u1"
          /\ b.moniteur = "u2"
          /\ b.via = "post"

\* C13: DELETE /users/:id of an instructor keeps every reservation, sets
\* to null the instructor of those that referenced the user and changes
\* no other field, then removes the user; for a user with another role no
\* step of the request writes to the reservations.
C13_DeleteUserDetaches ==
    [][\A h \in Handlers :
          /\ (rev = "auto" /\ hs[h].pc = "idle" /\ hs'[h].pc \in {"detach", "deleteUser"})
             => /\ hs'[h].uid \in DOMAIN users
                /\ (hs'[h].pc = "detach") = (users[hs'[h].uid].role = "moniteur")
                /\ reservations' = reservations
                /\ users' = users
          /\ (rev = "auto" /\ hs[h].pc = "detach" /\ hs'[h].pc # "detach")
             => /\ hs'[h].pc = "deleteUser"
                /\ hs'[h].uid = hs[h].uid
                /\ Cardinality(reservations') = Cardinality(reservations)
                /\ \A r \in reservations :
                      IF r.moniteur = hs[h].uid
                      THEN [r EXCEPT !.moniteur = NoId] \in reservations'
                      ELSE r \in reservations'
                /\ \A r \in reservations' : r.moniteur # hs[h].uid
                /\ users' = users
          /\ (rev = "auto" /\ hs[h].pc = "deleteUser" /\ hs'[h].pc # "deleteUser")
             => /\ DOMAIN users' = DOMAIN users \ {hs[h].uid}
                /\ \A u \in DOMAIN users' : users'[u] = users[u]
                /\ reservations' = reservations
                /\ ev' = Answer("deleteUser", 200, "supprime", FALSE)]_vars

C13_Witness ==
    /\ rev = "auto"
    /\ ev = Answer("deleteUser", 200, "supprime", FALSE)
    /\ DOMAIN users = {"u2", "u3"}
    /\ Cardinality(reservations) = 2
    /\ \E a, b \in reservations :
          /\ a.moniteur = NoId
          /\ a.email = "a@x.fr"
          /\ b.moniteur = "u2"
          /\ a.slot = b.slot
    /\ \A h \in Handlers : hs[h].pc = "idle"

\* C22: in the auto-assignment revision, when no request is in flight, the
\* instructor of every reservation made through POST /reservations is null
\* or an existing user with role instructor.
C22_NoDanglingInstructor ==
    (rev = "auto" /\ \A h \in Handlers : hs[h].pc = "idle") =>
       \A r \in reservations :
          r.via = "post" =>
             \/ r.moniteur = NoId
             \/ /\ r.moniteur \in DOMAIN users
                /\ users[r.moniteur].role = "moniteur"

-----------------------------------------------------------------------------
(* Revision "min": src/unnamed/part_001.  A reservation is saved as it is  *)
(* sent; each handler makes one store call.                                *)

SlotsMin == {Iso(0, 8, 0, 0), Iso(0, 9, 0, 1), NotADate, NoSlot}

InitMin ==
    /\ rev = "min"
    /\ tz = UTC
    /\ users = UsersAuto
    /\ moniteurs = << >>
    /\ reservations = {}
    /\ nextId = 1
    /\ hs = [h \in Handlers |-> Idle]
    /\ ev = NoAnswer
    /\ probe = << >>
    /\ result = NoResult
    /\ mails = {}
    /\ emailRateLimits = << >>
    /\ now = 0
    /\ emailLogs = << >>

\* app.post('/reservations'), lines 68-84 (with MAIL_USER and MAIL_PASS
\* set, so that there is a transport): the document is validated and
\* saved with the slot string of the body; a missing slot (required) or
\* an instructor that is no ObjectId makes save() throw: 500.
MinPostReservations(slot, email, mid) ==
    /\ rev = "min"
    /\ IF slot = NoSlot \/ mid = MalformedId
       THEN /\ ev' = Answer("post", 500, "erreurServeur", FALSE)
            /\ UNCHANGED <<reservations, nextId, mails>>
       ELSE /\ Room
            /\ reservations' = reservations \cup
                   {NewReservation(nextId, slot, email, mid, "post", 0, EmptyDispo)}
            /\ nextId' = nextId + 1
            /\ mails' = IF email # NoEmail
                        THEN mails \cup {Mail(nextId, "confirmation")}
                        ELSE mails
            /\ ev' = Answer("post", 201, "creee", FALSE)
    /\ UNCHANGED <<rev, tz, users, moniteurs, hs, probe, result, emailRateLimits, now, emailLogs>>

\* app.delete('/reservations/:id'), lines 86-91: findByIdAndDelete
\* returns, the document or null, and success is answered.
MinDeleteReservation(id) ==
    /\ rev = "min"
    /\ reservations' = {r \in reservations : r.id # id}
    /\ ev' = Answer("delete", 200, "success", FALSE)
    /\ UNCHANGED <<rev, tz, users, moniteurs, nextId, hs, probe, result, mails, emailRateLimits, now, emailLogs>>

NextMin ==
    \/ \E slot \in SlotsMin, email \in Emails \cup {NoEmail}, mid \in {NoId, MalformedId, "u1"} :
           MinPostReservations(slot, email, mid)
    \/ \E id \in 1..MaxRes : MinDeleteReservation(id)

SpecMin == InitMin /\ [][NextMin]_vars

\* The reservation numbered id was made and is no longer in the store.
DejaSupprimee(id) == id < nextId /\ ~\E r \in reservations : r.id = id

\* C14: a DELETE /reservations/:id for a reservation that an earlier
\* DELETE removed is answered 404 and changes nothing.
C14_SecondDelete404 ==
    [][\A id \in 1..MaxRes :
          (MinDeleteReservation(id) /\ DejaSupprimee(id))
          => (ev'.status = 404 /\ reservations' = reservations)]_vars

-----------------------------------------------------------------------------
(* One request on a quiet server: the request is drawn from every shape of *)
(* body, the store is empty or holds one reservation, and the request runs *)
(* to its answer alone (SpecValid).                                        *)

\* Slot strings of a body: absent, not a date, a date with hour 25, the
\* end of Monday written 24:00, and the well-formed ones.
SlotsBody == {NoSlot, NotADate, Iso(0, 25, 0, 0), Iso(0, 24, 0, 0)} \cup SlotsAvail

StoresAvail ==
    {{}, {NewReservation(1, ToISOString(ParseDate(Iso(0, 8, 0, 0))), "a@x.fr", "u1",
                         "post", 1, Seul("lundi", "9h"))}}

StoresTag ==
    {{}, {TagReservation(1, ToISOString(ParseDate(Iso(0, 8, 0, 0))), "a@x.fr", "M1", "m1")}}

BodiesAvail ==
    [rev : {"avail"}, kind : {"post", "admin"}, slot : SlotsBody,
     email : Emails \cup {NoEmail}, tag : {NoTag},
     mid : {NoId, MalformedId, UnknownId, "u1", "u2", "u3"}, store : StoresAvail]

BodiesTag ==
    [rev : {"tag"}, kind : {"post"}, slot : SlotsBody,
     email : Emails \cup {NoEmail}, tag : {NoTag, "M1", "M7"},
     mid : {NoId, MalformedId, UnknownId, "m1"}, store : StoresTag]

InitValid ==
    /\ probe \in BodiesAvail \cup BodiesTag
    /\ rev = probe.rev
    /\ tz = UTC
    /\ users = IF rev = "avail" THEN UsersAvail ELSE << >>
    /\ moniteurs = IF rev = "tag" THEN MoniteursTag ELSE << >>
    /\ reservations = probe.store
    /\ nextId = 1 + Cardinality(probe.store)
    /\ hs = [h \in Handlers |-> Idle]
    /\ ev = NoAnswer
    /\ result = NoResult
    /\ mails = {}
    /\ emailRateLimits = << >>
    /\ now = 0
    /\ emailLogs = << >>

\* The request arrives, once.
Arrive ==
    /\ ev = NoAnswer
    /\ \/ probe.kind = "post" /\ PostReservations("h1", probe.slot, probe.email, probe.mid)
       \/ probe.kind = "admin" /\ AdminReservations("h1", probe.slot, probe.email, probe.mid)
       \/ TagPostReservations("h1", probe.slot, probe.email, probe.tag, probe.mid)

NextValid ==
    \/ Arrive
    \/ PostCheckMoniteur("h1")
    \/ PostCheckEleve("h1")
    \/ PostSave("h1")
    \/ AdminCheckMoniteur("h1")
    \/ AdminSave("h1")
    \/ TagCheckEleve("h1")
    \/ TagFindMoniteur("h1")
    \/ TagSave("h1")

SpecValid == InitValid /\ [][NextValid]_vars

\* The slot string of the body names an instant: an ISO text whose hour
\* and minute exist, 24:00 being the end of the day.
DenotesInstant(s) ==
    s.txt = "iso" /\ ((s.h < 24 /\ s.mi < 60) \/ (s.h = 24 /\ s.mi = 0))

Answered == ev # NoAnswer

\* The request is a well-formed POST /reservations of the availability
\* revision (slot and instructor id given, slot an instant).
WellFormedPost ==
    /\ rev = "avail"
    /\ probe.kind = "post"
    /\ DenotesInstant(probe.slot)
    /\ probe.mid # NoId

NothingPersisted == reservations = probe.store /\ users = UsersAvail

\* C6 as stated: a POST /reservations whose instructor id matches no user,
\* or a user that is no instructor, is answered 404 and persists nothing.
C6_NotInstructor404 ==
    (Answered /\ WellFormedPost /\ probe.mid \in {UnknownId, "u3"}) =>
        (ev.status = 404 /\ NothingPersisted)

\* C6 as amended: the answer is 404 when the id matches no user, 400 when
\* it matches a user that is no instructor and 500 when it is no ObjectId;
\* in each case the request goes no further and persists nothing.
C6_NotInstructorRejected ==
    (WellFormedPost /\ probe.mid \in {UnknownId, MalformedId, "u3"}) =>
        /\ hs["h1"].pc = "idle"
        /\ NothingPersisted
        /\ Answered =>
              /\ probe.mid = UnknownId => (ev.status = 404 /\ ev.reason = "nonTrouve")
              /\ probe.mid = "u3" => (ev.status = 400 /\ ev.reason = "pasMoniteur")
              /\ probe.mid = MalformedId => ev.status = 500

C6_Witness ==
    /\ WellFormedPost
    /\ probe.mid = "u3"
    /\ probe.store # {}
    /\ ev.status = 400
    /\ ev.reason = "pasMoniteur"
    /\ NothingPersisted

\* C7: in the tag-based and the availability revision, a POST /reservations
\* whose slot string names no instant is answered 400 without a store
\* call that writes, whatever the other fields; one whose slot names an
\* instant is never answered with the invalid-slot message.
C7_SlotFormat ==
    /\ (probe.kind = "post" /\ ~DenotesInstant(probe.slot)) =>
          /\ hs["h1"].pc = "idle"
          /\ reservations = probe.store
          /\ Answered => ev.status = 400
    /\ (probe.kind = "post" /\ DenotesInstant(probe.slot)) =>
          ev.reason \notin {"slotInvalide", "slotRequis"}

C7_Witness ==
    /\ rev = "tag"
    /\ probe.slot = NotADate
    /\ probe.tag = "M1"
    /\ probe.email = "b@x.fr"
    /\ probe.store # {}
    /\ ev.status = 400
    /\ ev.reason = "slotInvalide"
    /\ reservations = probe.store

\* The instant an ISO text names, in minutes.
InstantOf(s) == ((s.d * 24 + s.h) * 60 + s.mi) - s.off * 60

\* The text is in canonical form: UTC, hour and minute in range.
Canonical(s) == s.txt = "iso" /\ s.off = 0 /\ s.h \in 0..23 /\ s.mi \in 0..59

\* The request names the instructor of the reservation in the store.
SameInstructorAsStored ==
    IF rev = "avail" THEN probe.mid = "u1" ELSE probe.tag = "M1" \/ probe.mid = "m1"

\* C15: the slot POST /reservations persists is the canonical UTC text of
\* the instant the body's slot names; a request for the instructor of a
\* persisted reservation whose slot names the same instant, in whatever
\* spelling, is answered 409 and persists nothing.
C15_CanonicalSlot ==
    /\ \A r \in reservations \ probe.store :
          /\ Canonical(r.slot)
          /\ DenotesInstant(probe.slot)
          /\ InstantOf(r.slot) = InstantOf(probe.slot)
    /\ (/\ Answered
        /\ probe.kind = "post"
        /\ probe.email # NoEmail
        /\ DenotesInstant(probe.slot)
        /\ SameInstructorAsStored
        /\ \E r \in probe.store : InstantOf(r.slot) = InstantOf(probe.slot))
       => (ev.status = 409 /\ ev.reason = "moniteurReserve" /\ reservations = probe.store)

C15_Witness ==
    /\ rev = "avail"
    /\ probe.kind = "post"
    /\ probe.slot = Iso(0, 9, 0, 1)
    /\ probe.email = "b@x.fr"
    /\ probe.mid = "u1"
    /\ \E r \in probe.store : r.slot = Iso(0, 8, 0, 0)
    /\ ev.status = 409
    /\ reservations = probe.store

-----------------------------------------------------------------------------
(* Claims on the availability revision under interleaving (SpecAvail).     *)

SamePair(a, b) == a.slot = b.slot /\ a.moniteur = b.moniteur

\* The hour label of the instant is in the schedule's entry for its
\* weekday, both taken in Paris.
InSchedule(dispo, t) == HeureLabel(ParisHour(t)) \in HeuresDisponibles(dispo, ParisJour(t))

InFlight(h) == hs[h].pc \in {"checkMon", "checkEleve", "save"}

\* C1: no two persisted reservations have the same slot and the same
\* instructor, in any reachable state.
C1_NoDoubleBooking ==
    \A a, b \in reservations : SamePair(a, b) => a = b

\* C2: two reservations for one (slot, instructor) are in the store only
\* when the conflict query of the one saved later ran before the other was
\* saved; nothing in the store refuses the second save.
C2_DoubleBookingByRace ==
    \A a, b \in reservations : (SamePair(a, b) /\ a.id < b.id) => b.chk <= a.id

C2_Witness ==
    \E a, b \in reservations :
        /\ a.id < b.id
        /\ SamePair(a, b)
        /\ a.via = "post"
        /\ b.via = "post"
        /\ b.chk <= a.id
        /\ ev.kind = "post"
        /\ ev.status = 201

\* The instructor a request of the tag revision names: <<tag, id>>, by the
\* tag or by the id, of the first instructor and of the one POST /moniteurs
\* makes.
NomsTag == {<<"M1", NoId>>, <<NoTag, "m1">>, <<"M7", NoId>>, <<NoTag, "m2">>}

\* The slot of the requests of the tag revision: Monday 08:00 UTC in its
\* two spellings.
SlotsReserve == {Iso(0, 8, 0, 0), Iso(0, 9, 0, 1)}

\* Both revisions of POST /reservations with the routes that write what it
\* reads, under interleaving: the routes of the availability revision, and
\* in the tag revision POST and DELETE /reservations and DELETE
\* /moniteurs/:id of the first instructor on either handler, while POST
\* /moniteurs runs on the second, which sends the requests of one student.
NextReserve ==
    \/ NextAvail
    \/ \E slot \in SlotsReserve, email \in Emails, nom \in NomsTag :
           TagPostReservations("h1", slot, email, nom[1], nom[2])
    \/ \E nom \in NomsTag :
           TagPostReservations("h2", Iso(0, 8, 0, 0), "b@x.fr", nom[1], nom[2])
    \/ \E h \in Handlers :
           \/ TagCheckEleve(h)
           \/ TagFindMoniteur(h)
           \/ TagSave(h)
           \/ TagDeleteOne(h)
           \/ TagDeleteMoniteurs(h, "m1")
           \/ TagFindByIdAndDelete(h)
    \/ \E h \in Handlers, id \in 1..MaxRes : TagDeleteReservation(h, id)
    \/ TagPostMoniteurs("h2", TRUE, "M7")
    \/ TagSaveMoniteur("h2")

SpecReserve == InitMail /\ [][NextReserve]_vars

\* The conflict query matches the Reservation document for the request
\* (server.js, lines 261-267): the document holds the tag or the id the
\* request gives.  A field the request leaves out is sent as null and
\* matches a document that lacks it, so a request by tag also matches every
\* document saved without an instructor id.
MemeMoniteur(r, tag, mid) == r.moniteur = tag \/ r.moniteurId = mid

\* A reservation of another student is in the store for the slot.  Every
\* reservation of the tag revision was answered 201 when it was saved.
AutreEleve(r, slot, email) ==
    /\ r.slot = ToISOString(ParseDate(slot))
    /\ r.email # email

\* The step that starts the request answers 409 and leaves the store.
Refuse409(h) ==
    /\ ev' = Answer("post", 409, "moniteurReserve", FALSE)
    /\ hs'[h] = Idle
    /\ reservations' = reservations

AnswerStep == ev' # ev \/ \E h \in Handlers : hs[h].pc # "idle" /\ hs'[h].pc = "idle"

\* C4: a POST /reservations or POST /admin/reservations answered 400, 404
\* or 409 leaves the Reservation store and the User store as they were.
C4_RejectionWritesNothing ==
    [][(AnswerStep /\ ev'.kind \in {"post", "admin"} /\ ev'.status \in {400, 404, 409})
          => (reservations' = reservations /\ users' = users)]_vars

C4_Witness ==
    /\ ev.kind = "admin"
    /\ ev.status = 409
    /\ reservations # {}

\* C5: a reservation is persisted, and a request gets past the
\* availability check, only if the instructor's schedule read by that
\* check, which is the stored one at that moment, held the slot's hour
\* label on the slot's weekday; a request answered at the check is
\* answered 400.
C5_OnlyWithinSchedule ==
    /\ [](/\ \A r \in reservations : InSchedule(r.vu, ParseDate(r.slot))
          /\ \A h \in Handlers :
                InFlight(h) => InSchedule(hs[h].moniteur.disponibilites, hs[h].dateSlot)
          /\ ev.reason = "horsPlanning" => ev.status = 400)
    /\ [][/\ \A h \in Handlers :
                (hs[h].pc = "idle" /\ InFlight(h)') =>
                    /\ hs'[h].moniteur = users[hs'[h].mid]
                    /\ InSchedule(users[hs'[h].mid].disponibilites, hs'[h].dateSlot)
          /\ \A r \in reservations' \ reservations :
                \E h \in Handlers :
                    /\ hs[h].pc = "save"
                    /\ r.vu = hs[h].moniteur.disponibilites
                    /\ ParseDate(r.slot) = hs[h].dateSlot
                    /\ r.moniteur = hs[h].mid]_vars

C5_Witness ==
    /\ \E r \in reservations :
          /\ InSchedule(r.vu, ParseDate(r.slot))
          /\ ~InSchedule(users[r.moniteur].disponibilites, ParseDate(r.slot))
    /\ ev.reason = "horsPlanning"
    /\ ev.status = 400

\* The one-hour windows that start at the two instants (in minutes) share
\* a minute.
Chevauche(t, u) == t - u < 60 /\ u - t < 60

\* C23: in the availability revision, no instructor holds two persisted
\* reservations of different slots whose one-hour windows overlap (two
\* reservations of one slot are the subject of C1).
C23_NoOverlap ==
    rev = "avail" =>
       \A a, b \in reservations :
          (a.moniteur = b.moniteur /\ a.slot # b.slot)
             => ~Chevauche(ParseDate(a.slot), ParseDate(b.slot))

\* C25: in the availability revision, a DELETE /reservations/:id is answered
\* 200 only by the request whose deleteOne removes the reservation, and no
\* cancellation mail is sent twice.
C25_OneCancellation ==
    /\ [](rev = "avail" => \A m \in mails : m.type = "annulation" => m.envois = 1)
    /\ [][\A h \in Handlers :
             DeleteOne(h) => \E r \in reservations : r.id = hs[h].rid]_vars

\* C30: in the availability revision, a POST /reservations is rejected by
\* its student-duplicate query only when a reservation of the same slot,
\* instructor and email was saved after its instructor-conflict query
\* returned; when nothing was saved in between, as when the requests do not
\* interleave, the student-duplicate query rejects nothing.
C30_DuplicateOnlyInterleaved ==
    [][\A h \in Handlers :
         PostCheckEleve(h)
         => /\ hs'[h].pc = "idle"
               => \E r \in reservations :
                      /\ r.slot = ToISOString(hs[h].dateSlot)
                      /\ r.moniteur = hs[h].mid
                      /\ r.email = hs[h].email
                      /\ r.id >= hs[h].chk
            /\ nextId = hs[h].chk
               => hs'[h].pc = "save"
      ]_vars

\* A POST /reservations was answered 409 by the student-duplicate query.
C30_Witness ==
    /\ rev = "avail"
    /\ ev.kind = "post"
    /\ ev.status = 409
    /\ ev.reason = "eleveReserve"

====
